---- MODULE Spec2Model ----
(***************************************************************************)
(* The imaging-to-cube pipeline of arrakis/imager.py as a state machine:   *)
(* the dask task graph built by imager.main (fix_ms, image_beam, get_beam, *)
(* smooth_images_in_imageset, make_cube, cleanup), the files the tasks     *)
(* write, list and remove, and the pickled common-beam artifact.           *)
(***************************************************************************)
EXTENDS Integers, Sequences, FiniteSets, TLC

\* Bounds of the model.
NBeams == 2      \* measurement sets of one run (imager.main asserts 36)
NChan == 2       \* channels_out handed to wsclean (nchan)
MaxBmaj == 2     \* restoring beams have major axes 1..MaxBmaj
MaxFreq == 4     \* header frequencies are 0..MaxFreq, in units of Tol / 2

\* 1e-6 * u.Hz, the tolerance of make_cube's spacing assertion; frequencies
\* are counted in halves of it.
Tol == 2

\* ------------------------------------------------------------------ names
\* for aux in ["model", "psf", "residual", "dirty"]
AuxKinds == <<"model", "psf", "residual", "dirty">>

\* for pol in "IQU": the polarizations main makes cubes for
CubePols == <<"I", "Q", "U">>

\* The values of the pols argument the model draws from.
PolsChoices == {<<"I", "Q", "U">>, <<"Q", "U">>, <<"I", "Q", "U", "V">>}

Range(s) == {s[i] : i \in 1..Len(s)}

\* The kind part of a file name, and its polarization part ("" when the name
\* has none).
Kinds == <<"image", "model", "psf", "residual", "dirty", "image.conv",
           "image.restored", "weights">>

PolParts == <<"", "I", "Q", "U", "V">>

\* Channel indices a name can carry: those of a run, 0..NChan-1, and one
\* more, for the files a run with a larger channels_out leaves behind.
MaxChan == NChan + 1

Index(s, x) == CHOOSE i \in 1..Len(s) : s[i] = x

\* A file of the output directory, by the parts of its name
\*   {prefix}-{chan:04d}[-{pol}]-{kind}.fits, {prefix}-MFS[-{pol}]-image.fits:
\* b the beam of the prefix, mfs whether the channel part is "MFS", c the
\* channel index, p the polarization part and k the kind. Cubes and weights
\* are named by make_cube. A name is kept as one number, its parts as digits
\* (most significant first: b, c, mfs, p, k).
File(b, mfs, c, p, k) ==
    (((b * MaxChan + c) * 2 + (IF mfs THEN 1 ELSE 0)) * Len(PolParts)
        + (Index(PolParts, p) - 1)) * Len(Kinds) + (Index(Kinds, k) - 1)

KindOf(f) == Kinds[(f % Len(Kinds)) + 1]

PolOf(f) == PolParts[((f \div Len(Kinds)) % Len(PolParts)) + 1]

IsMfs(f) == ((f \div (Len(Kinds) * Len(PolParts))) % 2) = 1

ChanOf(f) == (f \div (Len(Kinds) * Len(PolParts) * 2)) % MaxChan

BeamOf(f) == f \div (Len(Kinds) * Len(PolParts) * 2 * MaxChan)

\* pols.replace("I", "")
RECURSIVE ReplaceI(_)
ReplaceI(ps) ==
    IF ps = <<>> THEN <<>>
    ELSE IF Head(ps) = "I" THEN ReplaceI(Tail(ps))
    ELSE <<Head(ps)>> \o ReplaceI(Tail(ps))

\* The commands with the I command appended after the command for the rest.
CommandsILast(ps) ==
    <<ReplaceI(ps)>> \o (IF "I" \in Range(ps) THEN <<(<<"I">>)>> ELSE <<>>)

\* The wsclean commands of one image_beam call, each by its pol argument:
\* the I command first when "I" is requested, then the command for the rest.
Commands(ps) ==
    (IF "I" \in Range(ps) THEN <<(<<"I">>)>> ELSE <<>>) \o <<ReplaceI(ps)>>

\* pols as the noise check and the scan see it: the rest, then "I" appended.
ScanPols(ps) ==
    ReplaceI(ps) \o (IF "I" \in Range(ps) THEN <<"I">> ELSE <<>>)

\* The files one successful wsclean command writes for beam b: per channel
\* and polarization an image and the model, residual and dirty byproducts,
\* one psf per channel, and the MFS image of each polarization. The I
\* command writes names without a polarization part.
WscleanOut(b, cmd, nchan) ==
    LET tag(p) == IF p = "I" THEN "" ELSE p
    IN  {File(b, FALSE, c, tag(p), k) :
            c \in 0..(nchan - 1), p \in Range(cmd),
            k \in {"image", "model", "residual", "dirty"}}
        \cup {File(b, FALSE, c, "", "psf") : c \in 0..(nchan - 1)}
        \cup {File(b, TRUE, 0, tag(p), "image") : p \in Range(cmd)}

\* channels_out=nchan
WscleanFiles(b, cmd) == WscleanOut(b, cmd, NChan)

\* sorted(..., reverse=True)
RECURSIVE SortedDown(_)
SortedDown(S) ==
    IF S = {} THEN <<>>
    ELSE LET m == CHOOSE f \in S : \A g \in S : ChanOf(f) >= ChanOf(g)
         IN  <<m>> \o SortedDown(S \ {m})

\* sorted(...): the names a pattern matches differ in the channel part only.
RECURSIVE Sorted(_)
Sorted(S) ==
    IF S = {} THEN <<>>
    ELSE LET m == CHOOSE f \in S : \A g \in S : ChanOf(f) <= ChanOf(g)
         IN  <<m>> \o Sorted(S \ {m})

\* A scan whose pattern lost the [0-9]: the MFS image matches as well.
GlobImagesAnyChannel(files, b, pol) ==
    {f \in files : /\ BeamOf(f) = b /\ KindOf(f) = "image"
                   /\ PolOf(f) = (IF pol = "I" THEN "" ELSE pol)}

\* glob(f"{prefix}*[0-9]-image.fits") / glob(f"{prefix}*[0-9]-{pol}-image.fits"):
\* the part before the kind must end in a digit, so MFS names do not match.
GlobImages(files, b, pol) ==
    {f \in files : /\ BeamOf(f) = b /\ ~IsMfs(f) /\ KindOf(f) = "image"
                   /\ PolOf(f) = (IF pol = "I" THEN "" ELSE pol)}

\* glob(f"{prefix}*[0-9]-{aux}.fits") if pol == "I" or aux == "psf"
\* else glob(f"{prefix}*[0-9]-{pol}-{aux}.fits")
GlobAux(files, b, pol, aux) ==
    {f \in files : /\ BeamOf(f) = b /\ ~IsMfs(f) /\ KindOf(f) = aux
                   /\ PolOf(f) = (IF pol = "I" \/ aux = "psf" THEN "" ELSE pol)}

\* ------------------------------------------------------------- ImageSet
\* class ImageSet(NamedTuple). The dicts keep insertion order: a dict is a
\* sequence of <<key, value>> pairs. aux_lists None is the empty dict.
ImageSet(ms, prefix, image_lists, aux_lists) ==
    [ms |-> ms, prefix |-> prefix, image_lists |-> image_lists,
     aux_lists |-> aux_lists]

\* The value of a delayed ImageSet whose task has not produced it.
NoSet == ImageSet(0, 0, <<>>, <<>>)

Keys(d) == {d[i][1] : i \in 1..Len(d)}

Get(d, key) == (CHOOSE i \in 1..Len(d) : d[i][1] = key)

Lookup(d, key) == d[Get(d, key)][2]

\* Every value list of a dict, concatenated in the dict's order.
RECURSIVE Flatten(_)
Flatten(d) == IF d = <<>> THEN <<>> ELSE Head(d)[2] \o Flatten(Tail(d))

\* The scan at the end of image_beam: image_lists and aux_lists of beam b.
ScanImageSet(files, b, ps) ==
    LET sp == ScanPols(ps)
        images == [i \in 1..Len(sp) |-> <<sp[i], Sorted(GlobImages(files, b, sp[i]))>>]
        aux == [n \in 1..(Len(sp) * Len(AuxKinds)) |->
                  LET i == ((n - 1) \div Len(AuxKinds)) + 1
                      j == ((n - 1) % Len(AuxKinds)) + 1
                  IN  <<(<<sp[i], AuxKinds[j]>>),
                        Sorted(GlobAux(files, b, sp[i], AuxKinds[j]))>>]
    IN  ImageSet(b, b, images, aux)

\* image.replace(".fits", ".conv.fits")
ConvName(f) == File(BeamOf(f), IsMfs(f), ChanOf(f), PolOf(f), "image.conv")

\* The smoothed names, last first.
ConvListReversed(s) == [i \in 1..Len(s) |-> ConvName(s[Len(s) + 1 - i])]

ConvList(s) == [i \in 1..Len(s) |-> ConvName(s[i])]

\* The ImageSet smooth_images_in_imageset returns (aux_lists left None).
SmoothedSet(image_set) ==
    ImageSet(image_set.ms, image_set.prefix,
             [i \in 1..Len(image_set.image_lists) |->
                 <<image_set.image_lists[i][1], ConvList(image_set.image_lists[i][2])>>],
             <<>>)

\* make_cube's new_name and new_w_name, from the first channel's name.
CubeName(b, pol) == File(b, FALSE, 0, pol, "image.restored")

WeightsName(b, pol) == File(b, FALSE, 0, pol, "weights")

\* ------------------------------------------------------------- cleanup
\* The loop over image_lists: os.remove(image) raises on a missing file.
RECURSIVE RemoveImages(_, _)
RemoveImages(files, s) ==
    IF s = <<>> THEN [files |-> files, ok |-> TRUE]
    ELSE IF Head(s) \notin files THEN [files |-> files, ok |-> FALSE]
    ELSE RemoveImages(files \ {Head(s)}, Tail(s))

\* The loop over aux_lists: FileNotFoundError is caught and logged.
RemoveAux(files, s) == files \ Range(s)

\* A cleanup_imageset that stops after the image lists.
cleanup_imagesetImagesOnly(p, image_set, files) ==
    IF ~p THEN [files |-> files, ok |-> TRUE]
    ELSE RemoveImages(files, Flatten(image_set.image_lists))

cleanup_imageset(p, image_set, files) ==
    IF ~p THEN [files |-> files, ok |-> TRUE]
    ELSE LET r == RemoveImages(files, Flatten(image_set.image_lists))
         IN  IF ~r.ok THEN r
             ELSE [files |-> RemoveAux(r.files, Flatten(image_set.aux_lists)),
                   ok |-> TRUE]

\* cleanup(purge, image_sets, ignore_files): the sets in order, stopping at
\* the first exception.
RECURSIVE CleanupSets(_, _, _)
CleanupSets(p, sets, files) ==
    IF sets = <<>> THEN [files |-> files, ok |-> TRUE]
    ELSE LET r == cleanup_imageset(p, Head(sets), files)
         IN  IF ~r.ok THEN r ELSE CleanupSets(p, Tail(sets), r.files)

\* A cleanup that does not look at purge.
cleanupAlways(p, sets, files) == CleanupSets(TRUE, sets, files)

cleanup(p, sets, files) ==
    IF ~p THEN [files |-> files, ok |-> TRUE]
    ELSE CleanupSets(p, sets, files)

\* ---------------------------------------------------------- common beam
Beam(major, minor, pa) == [major |-> major, minor |-> minor, pa |-> pa]

Max(S) == CHOOSE x \in S : \A y \in S : y <= x

\* beamcon_2D.getmaxbeam over position-angle-0 beams: the largest axes.
GetMaxBeam(beams) ==
    Beam(Max({x.major : x \in beams}), Max({x.minor : x \in beams}), 0)

\* hashlib.md5("".join(image_list)): one digest per joined list (md5 taken
\* as collision free: the list itself stands for its digest).
ImageHash(image_list) == image_list

\* pickle.dump / pickle.load of a Beam: the three quantities in a row. A file
\* opened "wb" and not yet written is empty, and loading it raises EOFError.
Dump(beam) == <<beam.major, beam.minor, beam.pa>>

\* A load that takes the axes in the wrong order.
LoadSwapped(bytes) == Beam(bytes[2], bytes[1], bytes[3])

Load(bytes) == Beam(bytes[1], bytes[2], bytes[3])

Truncated == <<>>

\* ---------------------------------------------------------------- state
VARIABLES
    purge,          \* main's purge argument
    pols,           \* main's pols argument
    reimage,        \* main's reimage argument
    runs,           \* the pipeline runs sharing the directories
    mslist,         \* the measurement sets (beams) of a run
    files,          \* the files present in the output directory
    native,         \* beam -> the major axis in its images' headers (0: none)
    pkl,            \* artifact path -> the bytes of beam_{hash}.pkl
    st,             \* run -> task -> "waiting", "done" or "error"
    image_sets,     \* run -> beam -> the ImageSet image_beam returned
    sm_image_sets,  \* run -> beam -> the ImageSet smoothing returned
    common_beam_pkl,\* run -> what get_beam computed and returned
    loaded,         \* every deserialisation of the artifact by a task
    deleted,        \* every file a cleanup task has removed
    sawTruncated,   \* a task opened the artifact while it was empty
    aborted,        \* run -> compute(cleans) has raised and the run has ended
    ib,             \* one image_beam call, followed statement by statement
    mc,             \* one make_cube call, followed statement by statement
    gb,             \* one get_beam call, followed statement by statement
    mn,             \* the start of one imager.main call
    pspice,         \* one process_spice.main call
    ax,             \* one make_cube call, seen axis by axis
    pf,             \* the file names of two beams of one field
    ci,             \* one cleanup_imageset call
    flow,           \* one process_spice flow run
    fr,             \* one frion.main call
    lm              \* one linmos.main call

vars == <<purge, pols, reimage, runs, mslist, files, native, pkl, st,
          image_sets, sm_image_sets, common_beam_pkl, loaded, deleted,
          sawTruncated, aborted, ib, mc, gb, mn, pspice,
          ax, pf, ci, flow, fr, lm>>

\* The single calls are not part of a pipeline run.
calls == <<ib, mc, gb, mn, pspice, ax, pf, ci, flow, fr, lm>>

config == <<purge, pols, reimage, runs, mslist>>

\* A node of the task graph: the delayed function, its beam and (make_cube)
\* its polarization.
T(t, b, p) == [t |-> t, b |-> b, p |-> p]

FixMsT(b) == T("fix_ms", b, "")
ImageBeamT(b) == T("image_beam", b, "")
GetBeamT == T("get_beam", 0, "")
SmoothT(b) == T("smooth_images_in_imageset", b, "")
MakeCubeT(b, p) == T("make_cube", b, p)
CleanupT(b) == T("cleanup", b, "")

\* The graph main builds over a list of measurement sets.
Tasks(mss) ==
    {GetBeamT}
    \cup {FixMsT(b) : b \in mss} \cup {ImageBeamT(b) : b \in mss}
    \cup {SmoothT(b) : b \in mss} \cup {CleanupT(b) : b \in mss}
    \cup {MakeCubeT(b, p) : b \in mss, p \in Range(CubePols)}

NoBeamPkl == [path |-> <<>>, beam |-> Beam(0, 0, 0), hit |-> FALSE,
              step |-> "none", calls |-> 0]

InitFor(rs, mss) ==
    /\ purge \in BOOLEAN
    /\ pols \in PolsChoices
    /\ reimage \in BOOLEAN
    /\ runs = rs
    /\ mslist = mss
    /\ files = {}
    /\ native = [b \in mss |-> 0]
    /\ pkl = <<>>
    /\ st = [r \in rs |-> [t \in Tasks(mss) |-> "waiting"]]
    /\ image_sets = [r \in rs |-> [b \in mss |-> NoSet]]
    /\ sm_image_sets = [r \in rs |-> [b \in mss |-> NoSet]]
    /\ common_beam_pkl = [r \in rs |-> NoBeamPkl]
    /\ loaded = {}
    /\ deleted = {}
    /\ sawTruncated = FALSE
    /\ aborted = [r \in rs |-> FALSE]

\* No single call is followed.
NoCall == [pc |-> "none"]

\* One run over NBeams measurement sets.
Init ==
    /\ InitFor({1}, 1..NBeams)
    /\ ib = NoCall /\ mc = NoCall /\ gb = NoCall /\ mn = NoCall /\ pspice = NoCall
    /\ ax = NoCall /\ pf = NoCall /\ ci = NoCall
    /\ flow = NoCall /\ fr = NoCall /\ lm = NoCall

\* Two runs over the same measurement set and directories at once.
InitConc ==
    /\ InitFor({1, 2}, {1})
    /\ ib = NoCall /\ mc = NoCall /\ gb = NoCall /\ mn = NoCall /\ pspice = NoCall
    /\ ax = NoCall /\ pf = NoCall /\ ci = NoCall
    /\ flow = NoCall /\ fr = NoCall /\ lm = NoCall

Done(r, t) == st[r][t] = "done"

Waiting(r, t) == st[r][t] = "waiting"

Finish(r, t, ok) ==
    st' = [st EXCEPT ![r][t] = IF ok THEN "done" ELSE "error"]

\* ------------------------------------------------- the graph's edges
\* image_beam(ms=ms_fix, ...)
ImageBeamReady(r, b) == Done(r, FixMsT(b))

\* A get_beam that joins on one image_beam only.
GetBeamReadyAny(r) == \E b \in mslist : Done(r, ImageBeamT(b))

\* A get_beam that joins on the image_beams that ended well, once all ended.
GetBeamReadySurvivors(r) ==
    /\ \A b \in mslist : st[r][ImageBeamT(b)] \in {"done", "error"}
    /\ \E b \in mslist : Done(r, ImageBeamT(b))

\* get_beam(image_sets=image_sets, ...): every image_beam of the run
GetBeamReady(r) == \A b \in mslist : Done(r, ImageBeamT(b))

\* smooth_images_in_imageset(image_set, common_beam_pkl=common_beam_pkl)
SmoothReady(r, b) == Done(r, ImageBeamT(b)) /\ Done(r, GetBeamT)

\* A make_cube node that also waits for the cleanup of its beam.
MakeCubeReadyAfterCleanup(r, b) ==
    Done(r, SmoothT(b)) /\ Done(r, GetBeamT) /\ Done(r, CleanupT(b))

\* make_cube(pol=pol, image_set=sm_image_set, common_beam_pkl=common_beam_pkl)
MakeCubeReady(r, b) == Done(r, SmoothT(b)) /\ Done(r, GetBeamT)

\* A cleanup node built without ignore_files: no edge from the cubes.
CleanupReadyNoCubes(r, b) ==
    /\ Done(r, ImageBeamT(b))
    /\ Done(r, SmoothT(b))

\* A cleanup node that runs once its cubes have ended, failed or not.
CleanupReadyAnyOutcome(r, b) ==
    /\ Done(r, ImageBeamT(b))
    /\ Done(r, SmoothT(b))
    /\ \A p \in Range(CubePols) : ~Waiting(r, MakeCubeT(b, p))

\* A cleanup node that waits for the cubes of every beam.
CleanupReadyAllBeams(r, b) ==
    /\ Done(r, ImageBeamT(b))
    /\ Done(r, SmoothT(b))
    /\ \A c \in mslist : \A p \in Range(CubePols) : Done(r, MakeCubeT(c, p))

\* cleanup(purge, image_sets=[image_set, sm_image_set], ignore_files=cube_images)
CleanupReady(r, b) ==
    /\ Done(r, ImageBeamT(b))
    /\ Done(r, SmoothT(b))
    /\ \A p \in Range(CubePols) : Done(r, MakeCubeT(b, p))

\* ---------------------------------------------------------------- tasks
\* fix_ms: fix_ms_dir.main on the measurement set; it may raise.
FixMs(r, b) ==
    /\ Waiting(r, FixMsT(b))
    /\ ~aborted[r]
    /\ \E ok \in BOOLEAN : Finish(r, FixMsT(b), ok)
    /\ UNCHANGED <<config, calls, aborted, files, native, pkl, image_sets, sm_image_sets,
                   common_beam_pkl, loaded, deleted, sawTruncated>>

\* The major axis wsclean fits and writes into the headers of beam b's
\* images: it differs from beam to beam.
RestoringBeam(b) == ((b - 1) % MaxBmaj) + 1

\* The files of the first n commands of cmds.
RECURSIVE Written(_, _, _)
Written(b, cmds, n) ==
    IF n = 0 THEN {} ELSE WscleanFiles(b, cmds[n]) \cup Written(b, cmds, n - 1)

\* image_beam: without reimage it raises ValueError; otherwise the commands
\* run in order, the first n of them exiting 0. A failing command raises
\* CalledProcessError; after the last one the directory is scanned.
ImageBeam(r, b) ==
    /\ Waiting(r, ImageBeamT(b))
    /\ ~aborted[r]
    /\ ImageBeamReady(r, b)
    /\ IF ~reimage
       THEN /\ Finish(r, ImageBeamT(b), FALSE)
            /\ UNCHANGED <<files, native, image_sets>>
       ELSE LET cmds == Commands(pols)
            IN  \E n \in 0..Len(cmds) :
                  /\ files' = files \cup Written(b, cmds, n)
                  /\ native' = IF n = 0 THEN native
                               ELSE [native EXCEPT ![b] = RestoringBeam(b)]
                  /\ Finish(r, ImageBeamT(b), n = Len(cmds))
                  /\ image_sets' =
                       IF n = Len(cmds)
                       THEN [image_sets EXCEPT ![r][b] = ScanImageSet(files', b, pols)]
                       ELSE image_sets
    /\ UNCHANGED <<config, calls, aborted, pkl, sm_image_sets, common_beam_pkl, loaded,
                   deleted, sawTruncated>>

\* An image_list taken from the first ImageSet only.
ImageListFirst(sets, b) ==
    IF b \notin DOMAIN sets THEN <<>> ELSE Flatten(sets[b].image_lists)

\* get_beam's image_list: every list of every ImageSet, in mslist order.
RECURSIVE ImageList(_, _)
ImageList(sets, b) ==
    IF b \notin DOMAIN sets THEN <<>>
    ELSE Flatten(sets[b].image_lists) \o ImageList(sets, b + 1)

\* get_beam up to getmaxbeam: the list, its hash, and the common beam read
\* from the headers of the listed files (it raises when one cannot be read).
GetBeamCompute(r) ==
    /\ Waiting(r, GetBeamT)
    /\ ~aborted[r]
    /\ common_beam_pkl[r].step = "none"
    /\ GetBeamReady(r)
    /\ LET image_list == ImageList(image_sets[r], 1)
           path == ImageHash(image_list)
           ok == image_list # <<>> /\ Range(image_list) \subseteq files
       IN  \E readable \in BOOLEAN :
             IF ok /\ readable
             THEN /\ common_beam_pkl' = [common_beam_pkl EXCEPT ![r] =
                       [path |-> path,
                        beam |-> GetMaxBeam({Beam(native[BeamOf(f)], 1, 0) :
                                               f \in Range(image_list)}),
                        hit |-> path \in DOMAIN pkl /\ pkl[path] # Truncated,
                        step |-> "computed",
                        calls |-> common_beam_pkl[r].calls + 1]]
                  /\ UNCHANGED st
             ELSE /\ Finish(r, GetBeamT, FALSE)
                  /\ UNCHANGED common_beam_pkl
    /\ UNCHANGED <<config, calls, aborted, files, native, pkl, image_sets, sm_image_sets,
                   loaded, deleted, sawTruncated>>

\* with open(common_beam_pkl, "wb") as f: the file is created or emptied.
GetBeamOpen(r) ==
    /\ Waiting(r, GetBeamT)
    /\ ~aborted[r]
    /\ common_beam_pkl[r].step = "computed"
    /\ pkl' = (common_beam_pkl[r].path :> Truncated) @@ pkl
    /\ common_beam_pkl' = [common_beam_pkl EXCEPT ![r].step = "opened"]
    /\ UNCHANGED <<config, calls, aborted, files, native, st, image_sets, sm_image_sets,
                   loaded, deleted, sawTruncated>>

\* pickle.dump(common_beam, f); return common_beam_pkl
GetBeamDump(r) ==
    /\ Waiting(r, GetBeamT)
    /\ ~aborted[r]
    /\ common_beam_pkl[r].step = "opened"
    /\ pkl' = (common_beam_pkl[r].path :> Dump(common_beam_pkl[r].beam)) @@ pkl
    /\ common_beam_pkl' = [common_beam_pkl EXCEPT ![r].step = "written"]
    /\ Finish(r, GetBeamT, TRUE)
    /\ UNCHANGED <<config, calls, aborted, files, native, image_sets, sm_image_sets, loaded,
                   deleted, sawTruncated>>

\* with open(common_beam_pkl, "rb") as f: common_beam = pickle.load(f)
Deserialise(r, t) ==
    LET path == common_beam_pkl[r].path
    IN  IF pkl[path] = Truncated
        THEN [ok |-> FALSE, reads |-> {}]
        ELSE [ok |-> TRUE,
              reads |-> {[run |-> r, task |-> t, path |-> path,
                          beam |-> Load(pkl[path])]}]

\* smooth_images_in_imageset: load the beam, convolve every listed image
\* (beamcon_2D.worker reads it and writes the .conv.fits beside it; it may
\* raise), return the smoothed ImageSet.
Smooth(r, b) ==
    /\ Waiting(r, SmoothT(b))
    /\ ~aborted[r]
    /\ SmoothReady(r, b)
    /\ LET d == Deserialise(r, SmoothT(b))
           images == Flatten(image_sets[r][b].image_lists)
           sm == SmoothedSet(image_sets[r][b])
       IN  \E convolved \in BOOLEAN :
             LET ok == d.ok /\ Range(images) \subseteq files /\ convolved
             IN  /\ loaded' = loaded \cup d.reads
                 /\ sawTruncated' = (sawTruncated \/ ~d.ok)
                 /\ Finish(r, SmoothT(b), ok)
                 /\ files' = IF ok THEN files \cup Range(Flatten(sm.image_lists))
                             ELSE files
                 /\ sm_image_sets' = IF ok THEN [sm_image_sets EXCEPT ![r][b] = sm]
                                     ELSE sm_image_sets
    /\ UNCHANGED <<config, calls, aborted, native, pkl, image_sets, common_beam_pkl, deleted>>

\* make_cube: image_set.image_lists[pol] (KeyError when pol was not imaged),
\* every channel read in order, the spacing assertion, then the beam is
\* loaded and the cube and the weights are written.
MakeCube(r, b, p) ==
    /\ Waiting(r, MakeCubeT(b, p))
    /\ ~aborted[r]
    /\ MakeCubeReady(r, b)
    /\ LET lists == sm_image_sets[r][b].image_lists
           image_list == IF p \in Keys(lists) THEN Lookup(lists, p) ELSE <<>>
           read == image_list # <<>> /\ Range(image_list) \subseteq files
       IN  \E even \in BOOLEAN :
             LET d == IF read /\ even THEN Deserialise(r, MakeCubeT(b, p))
                      ELSE [ok |-> FALSE, reads |-> {}]
                 ok == read /\ even /\ d.ok
             IN  /\ loaded' = loaded \cup d.reads
                 /\ sawTruncated' = (sawTruncated \/ (read /\ even /\ ~d.ok))
                 /\ Finish(r, MakeCubeT(b, p), ok)
                 /\ files' = IF ok
                             THEN files \cup {CubeName(b, p), WeightsName(b, p)}
                             ELSE files
    /\ UNCHANGED <<config, calls, aborted, native, pkl, image_sets, sm_image_sets,
                   common_beam_pkl, deleted>>

\* The cleanup task of one beam.
Cleanup(r, b) ==
    /\ Waiting(r, CleanupT(b))
    /\ ~aborted[r]
    /\ CleanupReady(r, b)
    /\ LET res == cleanup(purge, <<image_sets[r][b], sm_image_sets[r][b]>>, files)
       IN  /\ files' = res.files
           /\ deleted' = deleted \cup (files \ res.files)
           /\ Finish(r, CleanupT(b), res.ok)
    /\ UNCHANGED <<config, calls, aborted, native, pkl, image_sets, sm_image_sets,
                   common_beam_pkl, loaded, sawTruncated>>

Next ==
    \/ \E r \in runs, b \in mslist : FixMs(r, b)
    \/ \E r \in runs, b \in mslist : ImageBeam(r, b)
    \/ \E r \in runs : GetBeamCompute(r)
    \/ \E r \in runs : GetBeamOpen(r)
    \/ \E r \in runs : GetBeamDump(r)
    \/ \E r \in runs, b \in mslist : Smooth(r, b)
    \/ \E r \in runs, b \in mslist, p \in Range(CubePols) : MakeCube(r, b, p)
    \/ \E r \in runs, b \in mslist : Cleanup(r, b)

\* return compute(cleans): compute raises as soon as a task the cleans
\* depend on has failed (every task of the graph is one), the client drops
\* the graph and no further task of the run is started.
Abort(r) ==
    /\ ~aborted[r]
    /\ \E t \in Tasks(mslist) : st[r][t] = "error"
    /\ aborted' = [aborted EXCEPT ![r] = TRUE]
    /\ UNCHANGED <<config, calls, files, native, pkl, st, image_sets,
                   sm_image_sets, common_beam_pkl, loaded, deleted,
                   sawTruncated>>

NextAbort ==
    \/ Next
    \/ \E r \in runs : Abort(r)

Spec == Init /\ [][Next]_vars

\* ------------------------------------------------- one image_beam call
\* No pipeline run: the variables of the graph stay as they are.
NoRun ==
    /\ purge = FALSE /\ pols = <<"I", "Q", "U">> /\ reimage = TRUE
    /\ runs = {} /\ mslist = {}
    /\ files = {} /\ native = <<>> /\ pkl = <<>> /\ st = <<>>
    /\ image_sets = <<>> /\ sm_image_sets = <<>> /\ common_beam_pkl = <<>>
    /\ loaded = {} /\ deleted = {} /\ sawTruncated = FALSE /\ aborted = <<>>

pipeline == <<config, files, native, pkl, st, image_sets, sm_image_sets,
              common_beam_pkl, loaded, deleted, sawTruncated, aborted>>

\* What an earlier run with channels_out = nchan + 1 and pols "IQU" left in
\* the output directory under the prefix of beam b.
EarlierRun(b) ==
    WscleanOut(b, <<"I">>, NChan + 1) \cup WscleanOut(b, <<"Q", "U">>, NChan + 1)

\* The values of pols one call is followed for.
CallPols == PolsChoices \cup {<<"I">>}

\* The arguments of the call and what it meets: pols and reimage, the exit
\* code of each wsclean command, the polarizations whose MFS image has a
\* noise above 1, and the content of out_dir under the prefix.
InitImageBeam ==
    /\ NoRun
    /\ mc = NoCall /\ gb = NoCall /\ mn = NoCall /\ pspice = NoCall
    /\ ax = NoCall /\ pf = NoCall /\ ci = NoCall
    /\ flow = NoCall /\ fr = NoCall /\ lm = NoCall
    /\ \E ps \in CallPols, re \in BOOLEAN, ex \in [1..2 -> {0, 1}],
          hi \in SUBSET {"I", "Q"}, dir \in {{}, EarlierRun(1)} :
          ib = [pc |-> "reimage", pols |-> ps, reimage |-> re, exits |-> ex,
                high |-> hi, dir |-> dir, i |-> 1, ran |-> <<>>,
                log |-> <<>>,
                image_lists |-> <<>>, aux_lists |-> <<>>,
                image_set |-> NoSet, exc |-> ""]

\* if not reimage: ... raise ValueError; else the commands are built.
IbReimage ==
    /\ ib.pc = "reimage"
    /\ ib' = IF ib.reimage THEN [ib EXCEPT !.pc = "commands"]
             ELSE [ib EXCEPT !.pc = "raised", !.exc = "ValueError"]
    /\ UNCHANGED <<pipeline, mc, gb, mn, pspice, ax, pf, ci, flow, fr, lm>>

\* A loop over the commands whose handler logs the failure and goes on.
IbExecuteGoOn ==
    /\ ib.pc = "commands"
    /\ LET cmds == Commands(ib.pols)
           cmd == cmds[ib.i]
       IN  ib' = [ib EXCEPT
                    !.ran = Append(@, cmd),
                    !.dir = IF ib.exits[ib.i] = 0 THEN @ \cup WscleanFiles(1, cmd)
                            ELSE @,
                    !.log = IF ib.exits[ib.i] = 0 THEN @
                            ELSE @ \o << <<"command", cmd>>, <<"stdout", cmd>>,
                                         <<"stderr", cmd>> >>,
                    !.exc = IF ib.exits[ib.i] = 0 THEN @ ELSE "CalledProcessError",
                    !.i = @ + 1,
                    !.pc = IF ib.i = Len(cmds) THEN "rms" ELSE @]
    /\ UNCHANGED <<pipeline, mc, gb, mn, pspice, ax, pf, ci, flow, fr, lm>>

\* for command in commands: sclient.execute(...); a non-zero exit is a
\* CalledProcessError, logged with the command, stdout and stderr and raised
\* again.
IbExecute ==
    /\ ib.pc = "commands"
    /\ LET cmds == Commands(ib.pols)
           cmd == cmds[ib.i]
       IN  ib' = IF ib.exits[ib.i] = 0
                 THEN [ib EXCEPT !.dir = @ \cup WscleanFiles(1, cmd),
                                 !.ran = Append(@, cmd),
                                 !.i = @ + 1,
                                 !.pc = IF ib.i = Len(cmds) THEN "rms" ELSE @]
                 ELSE [ib EXCEPT !.ran = Append(@, cmd),
                                 !.log = @ \o << <<"command", cmd>>,
                                                 <<"stdout", cmd>>,
                                                 <<"stderr", cmd>> >>,
                                 !.pc = "raised",
                                 !.exc = "CalledProcessError"]
    /\ UNCHANGED <<pipeline, mc, gb, mn, pspice, ax, pf, ci, flow, fr, lm>>

\* A noise check whose raise is not commented out.
IbNoiseRaise ==
    /\ ib.pc = "rms"
    /\ LET sp == ScanPols(ib.pols)
           j == ib.i - Len(Commands(ib.pols))
           scan == ScanImageSet(ib.dir, 1, ib.pols)
       IN  ib' = IF sp[j] \in ib.high
                 THEN [ib EXCEPT !.log = @ \o << <<"rms", sp[j]>> >>,
                                 !.pc = "raised", !.exc = "ValueError"]
                 ELSE [ib EXCEPT !.image_lists = scan.image_lists,
                                 !.aux_lists = scan.aux_lists,
                                 !.i = @ + 1,
                                 !.pc = IF j = Len(sp) THEN "construct" ELSE @]
    /\ UNCHANGED <<pipeline, mc, gb, mn, pspice, ax, pf, ci, flow, fr, lm>>

\* for pol in pols: the noise of the MFS image is logged when above 1 (the
\* raise is commented out), and the directory is scanned, once per pass.
IbNoise ==
    /\ ib.pc = "rms"
    /\ LET sp == ScanPols(ib.pols)
           j == ib.i - Len(Commands(ib.pols))
           scan == ScanImageSet(ib.dir, 1, ib.pols)
       IN  ib' = [ib EXCEPT
                    !.log = IF sp[j] \in ib.high THEN @ \o << <<"rms", sp[j]>> >>
                            ELSE @,
                    !.image_lists = scan.image_lists,
                    !.aux_lists = scan.aux_lists,
                    !.i = @ + 1,
                    !.pc = IF j = Len(sp) THEN "construct" ELSE @]
    /\ UNCHANGED <<pipeline, mc, gb, mn, pspice, ax, pf, ci, flow, fr, lm>>

\* image_set = ImageSet(ms=ms, prefix=prefix, ...); return image_set
IbReturn ==
    /\ ib.pc = "construct"
    /\ ib' = [ib EXCEPT !.image_set = ImageSet(1, 1, ib.image_lists, ib.aux_lists),
                        !.pc = "returned"]
    /\ UNCHANGED <<pipeline, mc, gb, mn, pspice, ax, pf, ci, flow, fr, lm>>

NextImageBeam == IbReimage \/ IbExecute \/ IbNoise \/ IbReturn

SpecImageBeam == InitImageBeam /\ [][NextImageBeam]_vars

\* The run with the end compute puts to it.
SpecAbort == Init /\ [][NextAbort]_vars

SpecConc == InitConc /\ [][Next]_vars

\* --------------------------------------------------------------- claims
\* The files an ImageSet lists, images and auxiliaries.
ListedIn(image_set) ==
    Range(Flatten(image_set.image_lists)) \cup Range(Flatten(image_set.aux_lists))

\* The files the raw and the smoothed ImageSet of beam b list in run r.
Listed(r, b) == ListedIn(image_sets[r][b]) \cup ListedIn(sm_image_sets[r][b])

ChannelImage(f) == KindOf(f) \in {"image", "image.conv"} /\ ~IsMfs(f)

\* C1: the cleanup task of a beam has started, or a raw or smoothed channel
\* image of the beam has been deleted, only when every make_cube task of that
\* beam is done and its cube exists.
C1_CleanupAfterCubes ==
    \A r \in runs, b \in mslist :
        (\/ ~Waiting(r, CleanupT(b))
         \/ \E f \in deleted : BeamOf(f) = b /\ ChannelImage(f))
        => \A p \in Range(CubePols) :
              Done(r, MakeCubeT(b, p)) /\ CubeName(b, p) \in files

C1_Witness ==
    \E r \in runs, b \in mslist :
        /\ Done(r, CleanupT(b))
        /\ \E f \in deleted : BeamOf(f) = b /\ KindOf(f) = "image"
        /\ \E f \in deleted : BeamOf(f) = b /\ KindOf(f) = "image.conv"

\* C2: once image_beam, smoothing or a make_cube of a beam has failed, the
\* tasks downstream of the failed task have not run, the beam's cleanup among
\* them, and no file of the beam's ImageSets has been deleted.
C2_FailedBeamIsKept ==
    \A r \in runs, b \in mslist :
        LET cubesWait == \A p \in Range(CubePols) : Waiting(r, MakeCubeT(b, p))
            cubeFailed == \E p \in Range(CubePols) : st[r][MakeCubeT(b, p)] = "error"
        IN  /\ st[r][ImageBeamT(b)] = "error"
               => Waiting(r, SmoothT(b)) /\ cubesWait /\ Waiting(r, CleanupT(b))
            /\ st[r][SmoothT(b)] = "error" => cubesWait /\ Waiting(r, CleanupT(b))
            /\ cubeFailed => Waiting(r, CleanupT(b))
            /\ (st[r][ImageBeamT(b)] = "error" \/ st[r][SmoothT(b)] = "error"
                    \/ cubeFailed)
               => /\ Listed(r, b) \cap deleted = {}
                  /\ \A f \in deleted : BeamOf(f) # b

C2_Witness ==
    /\ purge
    /\ \E r \in runs, b \in mslist, p \in Range(CubePols) :
          /\ st[r][MakeCubeT(b, p)] = "error"
          /\ \A q \in Range(CubePols) : ~Waiting(r, MakeCubeT(b, q))
          /\ Listed(r, b) # {}
          /\ \E c \in mslist : c # b /\ Done(r, CleanupT(c))

\* C3: get_beam has started only if every image_beam of the run is done, and
\* a smoothing or make_cube task has started only if get_beam is done.
C3_Barrier ==
    \A r \in runs :
        /\ (~Waiting(r, GetBeamT) \/ common_beam_pkl[r].step # "none")
           => \A b \in mslist : Done(r, ImageBeamT(b))
        /\ \A b \in mslist :
              (\/ ~Waiting(r, SmoothT(b))
               \/ \E p \in Range(CubePols) : ~Waiting(r, MakeCubeT(b, p)))
              => Done(r, GetBeamT)

C3_Witness ==
    \E r \in runs, b \in mslist, p \in Range(CubePols) :
        Done(r, GetBeamT) /\ Done(r, SmoothT(b)) /\ Done(r, MakeCubeT(b, p))

\* C4: without purge no cleanup deletes anything: every file an ImageSet
\* lists is still there.
C4_NoPurgeKeepsAll ==
    ~purge => /\ deleted = {}
              /\ \A r \in runs, b \in mslist : Listed(r, b) \subseteq files

C4_Witness ==
    /\ ~purge
    /\ \A r \in runs, b \in mslist : Done(r, CleanupT(b)) /\ Listed(r, b) # {}

\* C5: with purge, once the cleanup task of a beam is done no file listed in
\* the image lists or auxiliary lists of its raw and smoothed ImageSets is left.
C5_PurgeRemovesListed ==
    \A r \in runs, b \in mslist :
        (purge /\ Done(r, CleanupT(b))) => Listed(r, b) \cap files = {}

C5_Witness ==
    \E r \in runs, b \in mslist :
        /\ purge /\ Done(r, CleanupT(b))
        /\ \E f \in Listed(r, b) : KindOf(f) = "psf"
        /\ \E f \in Listed(r, b) : KindOf(f) = "image.conv"

\* C6 (as claimed): a cleanup task never ends in an exception, also when files
\* it lists are already gone.
C6_CleanupNeverRaises ==
    \A r \in runs, b \in mslist : st[r][CleanupT(b)] # "error"

\* C7: no cleanup has deleted a cube, a weights file or an MFS image: the
\* outputs of every finished make_cube and image_beam are there, and so is the
\* artifact get_beam wrote.
C7_OutputsSurvive ==
    /\ \A f \in deleted :
          ~IsMfs(f) /\ KindOf(f) \notin {"image.restored", "weights"}
    /\ \A r \in runs, b \in mslist :
          /\ \A p \in Range(CubePols) :
                Done(r, MakeCubeT(b, p))
                => {CubeName(b, p), WeightsName(b, p)} \subseteq files
          /\ Done(r, ImageBeamT(b))
             => \A p \in Range(pols) :
                   File(b, TRUE, 0, IF p = "I" THEN "" ELSE p, "image") \in files
    /\ \A r \in runs :
          Done(r, GetBeamT) => common_beam_pkl[r].path \in DOMAIN pkl

C7_Witness ==
    /\ purge
    /\ \A r \in runs, b \in mslist : Done(r, CleanupT(b))
    /\ deleted # {}

\* C8 (as claimed): a get_beam that finds the artifact of its fingerprint
\* stored does not run the maximum-beam computation or write the artifact.
C8_CacheHitSkipsCompute ==
    \A r \in runs :
        common_beam_pkl[r].hit => common_beam_pkl[r].step = "none"

\* C9 (as claimed): of the runs over one fingerprint at most one computes and
\* writes the artifact, and no task opens the artifact while it is empty.
C9_SingleWriterAtomic ==
    /\ \A r1, r2 \in runs :
          (/\ common_beam_pkl[r1].step # "none"
           /\ common_beam_pkl[r2].step # "none"
           /\ common_beam_pkl[r1].path = common_beam_pkl[r2].path)
          => r1 = r2
    /\ ~sawTruncated

\* C10: in a run get_beam computes once; every smoothing and make_cube task
\* that is done has loaded, from the path get_beam returned, a beam equal to
\* the one get_beam computed; and once get_beam has returned the artifact
\* holds that beam.
C10_OneBeamPerRun ==
    \A r \in runs :
        /\ common_beam_pkl[r].calls <= 1
        /\ Done(r, GetBeamT) =>
              /\ common_beam_pkl[r].calls = 1
              /\ common_beam_pkl[r].path \in DOMAIN pkl
              /\ pkl[common_beam_pkl[r].path] # Truncated
              /\ Load(pkl[common_beam_pkl[r].path]) = common_beam_pkl[r].beam
        /\ \A x \in loaded :
              x.run = r => /\ x.path = common_beam_pkl[r].path
                           /\ x.beam = common_beam_pkl[r].beam
        /\ \A b \in mslist :
              /\ Done(r, SmoothT(b)) => \E x \in loaded : x.run = r /\ x.task = SmoothT(b)
              /\ \A p \in Range(CubePols) :
                    Done(r, MakeCubeT(b, p))
                    => \E x \in loaded : x.run = r /\ x.task = MakeCubeT(b, p)

C10_Witness ==
    \E r \in runs, b \in mslist :
        /\ \A p \in Range(CubePols) : Done(r, MakeCubeT(b, p))
        /\ common_beam_pkl[r].beam.major # common_beam_pkl[r].beam.minor
        /\ \E x \in loaded : x.task = SmoothT(b) /\ x.beam = common_beam_pkl[r].beam

\* ---------------------------------------------------- failures of a beam
\* C11: when the run has ended because one beam's image_beam failed, every
\* other beam whose measurement set was fixed has had its image_beam run.
C11_OtherBeamsStillImaged ==
    \A r \in runs : \A b \in mslist :
        (aborted[r] /\ st[r][ImageBeamT(b)] = "error")
            => \A c \in mslist \ {b} :
                   Done(r, FixMsT(c)) => ~Waiting(r, ImageBeamT(c))

\* Exactly beam b's image_beam has failed; every other one has completed.
OnlyFailed(r, b) ==
    /\ st[r][ImageBeamT(b)] = "error"
    /\ \A c \in mslist \ {b} : Done(r, ImageBeamT(c))

\* C12 as stated: when exactly one beam's imaging has failed and the others
\* have completed, get_beam can run (or has run) over the survivors.
C12_SurvivorsProceed ==
    \A r \in runs : \A b \in mslist :
        OnlyFailed(r, b) => (GetBeamReady(r) \/ ~Waiting(r, GetBeamT))

\* C12, amended: a beam whose image_beam failed has no ImageSet, and from
\* then on get_beam has not run and never can, so no beam's smoothing, cube
\* assembly or cleanup has run either, the failed beam's included.
C12_FailedImagingBlocksJoin ==
    \A r \in runs : \A b \in mslist :
        st[r][ImageBeamT(b)] = "error"
            => /\ image_sets[r][b] = NoSet
               /\ Waiting(r, GetBeamT)
               /\ ~GetBeamReady(r)
               /\ common_beam_pkl[r].calls = 0
               /\ \A c \in mslist :
                      /\ Waiting(r, SmoothT(c))
                      /\ Waiting(r, CleanupT(c))
                      /\ \A p \in Range(CubePols) : Waiting(r, MakeCubeT(c, p))

\* One beam's wsclean has failed, the other beams are imaged.
C12_Witness ==
    \E r \in runs : \E b \in mslist :
        /\ OnlyFailed(r, b)
        /\ reimage
        /\ \E c \in mslist \ {b} : image_sets[r][c] # NoSet

\* ------------------------------------- one beam, from the scan to the cube
\* np.diff(freqs)
Diff(freqs) == [i \in 1..(Len(freqs) - 1) |-> freqs[i + 1] - freqs[i]]

RECURSIVE Sum(_)
Sum(d) == IF d = <<>> THEN 0 ELSE Head(d) + Sum(Tail(d))

RECURSIVE SumSq(_)
SumSq(d) == IF d = <<>> THEN 0 ELSE Head(d) * Head(d) + SumSq(Tail(d))

\* A spacing test on the largest deviation between two spacings.
RangeWithin(d, tol) ==
    \A i, j \in 1..Len(d) : d[i] - d[j] <= tol

\* np.diff(freqs).std() < 1e-6 * u.Hz: the standard deviation (over n, not
\* n - 1) of the spacings d is below tol, that is n * sum(d^2) - sum(d)^2 is
\* below (n * tol)^2. With no spacing at all the deviation is nan, and no
\* comparison with nan is true.
StdBelow(d, tol) ==
    /\ Len(d) > 0
    /\ Len(d) * SumSq(d) - Sum(d) * Sum(d) < Len(d) * Len(d) * tol * tol

\* A cube as long as channels_out.
CubeShapeNchan(image_list) == NChan

\* cube_shape[idx] = len(image_list)
CubeShape(image_list) == Len(image_list)

\* The channel images of I, Q and U a directory holds for the channels chans.
ChannelImages(chans) ==
    {File(1, FALSE, c, p, "image") : c \in chans, p \in {"", "Q", "U"}}

\* With them the byproducts wsclean writes beside each: model, residual and
\* dirty per polarization, one psf per channel.
ChannelFiles(chans) ==
    ChannelImages(chans)
    \cup {File(1, FALSE, c, p, k) : c \in chans, p \in {"", "Q", "U"},
                                   k \in {"model", "residual", "dirty"}}
    \cup {File(1, FALSE, c, "", "psf") : c \in chans}

\* The channels whose images the directory holds, the frequency in the header
\* of each, the polarization make_cube is called for, and whether the beam
\* pickle can be loaded.
InitCube ==
    /\ NoRun
    /\ ib = NoCall /\ gb = NoCall /\ mn = NoCall /\ pspice = NoCall
    /\ ax = NoCall /\ pf = NoCall /\ ci = NoCall
    /\ flow = NoCall /\ fr = NoCall /\ lm = NoCall
    /\ \E chans \in SUBSET (0..(MaxChan - 1)) :
         /\ chans # {}
         /\ \E freq \in [chans -> 0..MaxFreq], pol \in {"I", "Q"},
               pklok \in BOOLEAN :
               mc = [pc |-> "scan", dir |-> ChannelFiles(chans), freq |-> freq,
                     pol |-> pol, pklok |-> pklok,
                     image_set |-> NoSet, sm_image_set |-> NoSet,
                     chan |-> 0, freqs |-> <<>>, rmss |-> <<>>,
                     data_cube |-> <<>>, new_name |-> 0, naxis3 |-> 0,
                     cube |-> <<>>, weights |-> <<>>, written |-> {},
                     exc |-> ""]

\* The scan at the end of image_beam.
McScan ==
    /\ mc.pc = "scan"
    /\ mc' = [mc EXCEPT !.image_set = ScanImageSet(mc.dir, 1, <<"I", "Q", "U">>),
                        !.pc = "smooth"]
    /\ UNCHANGED <<pipeline, ib, gb, mn, pspice, ax, pf, ci, flow, fr, lm>>

\* smooth_images_in_imageset(image_set, ...)
McSmooth ==
    /\ mc.pc = "smooth"
    /\ mc' = [mc EXCEPT !.sm_image_set = SmoothedSet(mc.image_set),
                        !.dir = @ \cup Range(Flatten(SmoothedSet(mc.image_set).image_lists)),
                        !.pc = "loop"]
    /\ UNCHANGED <<pipeline, ib, gb, mn, pspice, ax, pf, ci, flow, fr, lm>>

\* for chan, image in enumerate(image_list): one pass. The first allocates
\* the cube and names it; every pass appends the plane's noise and the
\* frequency of the image's header and stores the plane in slot chan.
McRead ==
    /\ mc.pc = "loop"
    /\ LET image_list == Lookup(mc.sm_image_set.image_lists, mc.pol)
           image == image_list[mc.chan + 1]
           zeros == [k \in 1..CubeShape(image_list) |-> 0]
           cube0 == IF mc.chan = 0 THEN zeros ELSE mc.data_cube
       IN  mc' = [mc EXCEPT
                    !.new_name = IF mc.chan = 0 THEN CubeName(BeamOf(image), mc.pol)
                                 ELSE @,
                    !.rmss = Append(@, image),
                    !.data_cube = [cube0 EXCEPT ![mc.chan + 1] = image],
                    !.freqs = Append(@, mc.freq[ChanOf(image)]),
                    !.chan = @ + 1,
                    !.pc = IF mc.chan + 1 = Len(image_list) THEN "assert" ELSE @]
    /\ UNCHANGED <<pipeline, ib, gb, mn, pspice, ax, pf, ci, flow, fr, lm>>

\* A spacing check that leaves a note in exc and goes on to write.
McAssertGoOn ==
    /\ mc.pc = "assert"
    /\ mc' = [mc EXCEPT !.naxis3 = Len(mc.freqs),
                        !.exc = IF StdBelow(Diff(mc.freqs), Tol) THEN @
                                ELSE "AssertionError",
                        !.pc = "write"]
    /\ UNCHANGED <<pipeline, ib, gb, mn, pspice, ax, pf, ci, flow, fr, lm>>

\* assert np.diff(freqs).std() < 1e-6 * u.Hz, then the header of the cube.
McAssert ==
    /\ mc.pc = "assert"
    /\ mc' = IF StdBelow(Diff(mc.freqs), Tol)
             THEN [mc EXCEPT !.naxis3 = Len(mc.freqs), !.pc = "write"]
             ELSE [mc EXCEPT !.exc = "AssertionError", !.pc = "raised"]
    /\ UNCHANGED <<pipeline, ib, gb, mn, pspice, ax, pf, ci, flow, fr, lm>>

\* pickle.load, fits.writeto(new_name, data_cube, ...), np.savetxt(new_w_name,
\* rmss_arr.value), return.
McWrite ==
    /\ mc.pc = "write"
    /\ mc' = IF mc.pklok
             THEN [mc EXCEPT !.cube = mc.data_cube,
                             !.weights = mc.rmss,
                             !.written = {mc.new_name, WeightsName(1, mc.pol)},
                             !.pc = "returned"]
             ELSE [mc EXCEPT !.exc = "UnpicklingError", !.pc = "raised"]
    /\ UNCHANGED <<pipeline, ib, gb, mn, pspice, ax, pf, ci, flow, fr, lm>>

NextCube == McScan \/ McSmooth \/ McRead \/ McAssert \/ McWrite

SpecCube == InitCube /\ [][NextCube]_vars

\* --------------------------------------------------- one get_beam call
\* The orders n things can be presented in.
Orders(n) == {f \in [1..n -> 1..n] : \A i, j \in 1..n : f[i] = f[j] => i = j}

\* The ImageSet image_beam returns for beam b after an "IQU" imaging.
BeamSet(b) ==
    ScanImageSet(WscleanFiles(b, <<"I">>) \cup WscleanFiles(b, <<"Q", "U">>),
                 b, <<"I", "Q", "U">>)

\* The same ImageSet, its image_lists dict filled in the key order f.
KeyOrder(image_set, f) ==
    ImageSet(image_set.ms, image_set.prefix,
             [i \in 1..Len(image_set.image_lists) |-> image_set.image_lists[f[i]]],
             image_set.aux_lists)

\* The ImageSets of the beams, in mslist order and with the scan's key order.
SetsInOrder == [b \in 1..NBeams |-> BeamSet(b)]

\* The image_sets argument: the ImageSets of the beams in some order, each
\* with its polarization keys in some order.
InitGetBeam ==
    /\ NoRun
    /\ ib = NoCall /\ mc = NoCall /\ mn = NoCall /\ pspice = NoCall
    /\ ax = NoCall /\ pf = NoCall /\ ci = NoCall
    /\ flow = NoCall /\ fr = NoCall /\ lm = NoCall
    /\ \E o \in Orders(NBeams), k \in [1..NBeams -> Orders(3)] :
          gb = [pc |-> "flatten",
                image_sets |-> [i \in 1..NBeams |-> KeyOrder(BeamSet(o[i]), k[i])],
                image_list |-> <<>>, image_hash |-> <<>>,
                common_beam |-> Beam(0, 0, 0), common_beam_pkl |-> <<>>,
                pkl |-> <<>>]

\* for image_set in image_sets: for _, sub_image_list in ...: extend
GbFlatten ==
    /\ gb.pc = "flatten"
    /\ gb' = [gb EXCEPT !.image_list = ImageList(gb.image_sets, 1), !.pc = "hash"]
    /\ UNCHANGED <<pipeline, ib, mc, mn, pspice, ax, pf, ci, flow, fr, lm>>

\* image_hash = hashlib.md5("".join(image_list).encode()).hexdigest()
GbHash ==
    /\ gb.pc = "hash"
    /\ gb' = [gb EXCEPT !.image_hash = ImageHash(gb.image_list), !.pc = "maxbeam"]
    /\ UNCHANGED <<pipeline, ib, mc, mn, pspice, ax, pf, ci, flow, fr, lm>>

\* common_beam, _ = beamcon_2D.getmaxbeam(files=image_list)
GbMaxBeam ==
    /\ gb.pc = "maxbeam"
    /\ gb' = [gb EXCEPT
                 !.common_beam = GetMaxBeam({Beam(RestoringBeam(BeamOf(f)), 1, 0) :
                                               f \in Range(gb.image_list)}),
                 !.pc = "dump"]
    /\ UNCHANGED <<pipeline, ib, mc, mn, pspice, ax, pf, ci, flow, fr, lm>>

\* common_beam_pkl = os.path.abspath(f"beam_{image_hash}.pkl"); pickle.dump
GbDump ==
    /\ gb.pc = "dump"
    /\ gb' = [gb EXCEPT !.common_beam_pkl = gb.image_hash,
                        !.pkl = Dump(gb.common_beam),
                        !.pc = "returned"]
    /\ UNCHANGED <<pipeline, ib, mc, mn, pspice, ax, pf, ci, flow, fr, lm>>

NextGetBeam == GbFlatten \/ GbHash \/ GbMaxBeam \/ GbDump

SpecGetBeam == InitGetBeam /\ [][NextGetBeam]_vars

\* ------------------------------------------- the start of imager.main
\* len(mslist) == 36
RequiredMs == 36

\* (len(mslist) > 0) & (len(mslist) == 36)
MsCountOk(n) == n > 0 /\ n = RequiredMs

\* The number of measurement sets the glob finds in msdir, and the pols and
\* purge arguments.
InitMain ==
    /\ NoRun
    /\ ib = NoCall /\ mc = NoCall /\ gb = NoCall /\ pspice = NoCall
    /\ ax = NoCall /\ pf = NoCall /\ ci = NoCall
    /\ flow = NoCall /\ fr = NoCall /\ lm = NoCall
    /\ \E n \in 0..(RequiredMs + 1), ps \in PolsChoices, p \in BOOLEAN :
          mn = [pc |-> "glob", found |-> n, pols |-> ps, purge |-> p,
                mslist |-> {}, ntasks |-> 0, cleans |-> 0, exc |-> ""]

\* mslist = sorted(msdir.glob("scienceData*_averaged_cal.leakage.ms"))
MnGlob ==
    /\ mn.pc = "glob"
    /\ mn' = [mn EXCEPT !.mslist = 1..mn.found, !.pc = "assert"]
    /\ UNCHANGED <<pipeline, ib, mc, gb, pspice, ax, pf, ci, flow, fr, lm>>

\* assert (len(mslist) > 0) & (len(mslist) == 36)
MnAssert ==
    /\ mn.pc = "assert"
    /\ mn' = IF MsCountOk(Cardinality(mn.mslist))
             THEN [mn EXCEPT !.pc = "build"]
             ELSE [mn EXCEPT !.pc = "raised", !.exc = "AssertionError"]
    /\ UNCHANGED <<pipeline, ib, mc, gb, pspice, ax, pf, ci, flow, fr, lm>>

\* for ms in mslist: ...; the graph of the run, one cleanup per beam.
MnBuild ==
    /\ mn.pc = "build"
    /\ mn' = [mn EXCEPT !.ntasks = Cardinality(Tasks(mn.mslist)),
                        !.cleans = Cardinality({CleanupT(b) : b \in mn.mslist}),
                        !.pc = "compute"]
    /\ UNCHANGED <<pipeline, ib, mc, gb, pspice, ax, pf, ci, flow, fr, lm>>

\* return compute(cleans): the run itself, followed under Spec.
MnCompute ==
    /\ mn.pc = "compute"
    /\ mn' = [mn EXCEPT !.pc = "computing"]
    /\ UNCHANGED <<pipeline, ib, mc, gb, pspice, ax, pf, ci, flow, fr, lm>>

NextMain == MnGlob \/ MnAssert \/ MnBuild \/ MnCompute

SpecMain == InitMain /\ [][NextMain]_vars

\* ------------------------------------------------- process_spice.main
\* The Namespace handed to main: skip_imaging as the parser of cli defines it
\* (--skip_imaging, store_true), skip_imager as another caller may have set
\* it ("absent" when the Namespace comes from cli, which defines no such
\* option), whether outfile is None, and whether each of the two
\* create_dask_runner calls returns a runner or raises.
InitSpice ==
    /\ NoRun
    /\ ib = NoCall /\ mc = NoCall /\ gb = NoCall /\ mn = NoCall
    /\ ax = NoCall /\ pf = NoCall /\ ci = NoCall
    /\ flow = NoCall /\ fr = NoCall /\ lm = NoCall
    /\ \E flag \in BOOLEAN, other \in {"absent", "true", "false"},
          none \in BOOLEAN, ok \in [1..2 -> BOOLEAN] :
          pspice = [pc |-> "save_args", skip_imaging |-> flag,
                    skip_imager |-> other, outfile_none |-> none,
                    runner_ok |-> ok, outfile |-> "unbound", log |-> <<>>,
                    submitted |-> <<>>, exc |-> ""]

\* output_args_path = save_args(args); if args.outfile is None: outfile = ...
SpSaveArgs ==
    /\ pspice.pc = "save_args"
    /\ pspice' = [pspice EXCEPT
                     !.outfile = IF pspice.outfile_none THEN "pipe.test.fits" ELSE @,
                     !.pc = "flag"]
    /\ UNCHANGED <<pipeline, ib, mc, gb, mn, ax, pf, ci, flow, fr, lm>>

\* if args.skip_imager: (the imager's runner) else: logger.warn("Skipping
\* the image creation step. "). Reading an attribute the Namespace does not
\* have raises AttributeError.
SpFlag ==
    /\ pspice.pc = "flag"
    /\ pspice' =
         IF pspice.skip_imager = "absent"
         THEN [pspice EXCEPT !.pc = "raised", !.exc = "AttributeError"]
         ELSE IF pspice.skip_imager = "true"
         THEN [pspice EXCEPT !.pc = "imager_runner"]
         ELSE [pspice EXCEPT !.log = Append(@, "Skipping the image creation step"),
                             !.pc = "runner"]
    /\ UNCHANGED <<pipeline, ib, mc, gb, mn, ax, pf, ci, flow, fr, lm>>

\* dask_runner = create_dask_runner(..., dask_config=args.imager_dask_config, ...)
SpImagerRunner ==
    /\ pspice.pc = "imager_runner"
    /\ pspice' = IF pspice.runner_ok[1]
                 THEN [pspice EXCEPT !.pc = "submit"]
                 ELSE [pspice EXCEPT !.pc = "raised", !.exc = "RunnerError"]
    /\ UNCHANGED <<pipeline, ib, mc, gb, mn, ax, pf, ci, flow, fr, lm>>

\* process_imager.with_options(...).submit(args)
SpSubmitImager ==
    /\ pspice.pc = "submit"
    /\ pspice' = [pspice EXCEPT !.submitted = Append(@, "process_imager"),
                                !.pc = "runner"]
    /\ UNCHANGED <<pipeline, ib, mc, gb, mn, ax, pf, ci, flow, fr, lm>>

\* dask_runner = create_dask_runner(..., dask_config=args.dask_config, ...)
SpRunner ==
    /\ pspice.pc = "runner"
    /\ pspice' = IF pspice.runner_ok[2]
                 THEN [pspice EXCEPT !.pc = "flow"]
                 ELSE [pspice EXCEPT !.pc = "raised", !.exc = "RunnerError"]
    /\ UNCHANGED <<pipeline, ib, mc, gb, mn, ax, pf, ci, flow, fr, lm>>

\* process_spice.with_options(...)(args, host)
SpFlow ==
    /\ pspice.pc = "flow"
    /\ pspice' = [pspice EXCEPT !.submitted = Append(@, "process_spice"),
                                !.pc = "returned"]
    /\ UNCHANGED <<pipeline, ib, mc, gb, mn, ax, pf, ci, flow, fr, lm>>

NextSpice ==
    SpSaveArgs \/ SpFlag \/ SpImagerRunner \/ SpSubmitImager \/ SpRunner \/ SpFlow

SpecSpice == InitSpice /\ [][NextSpice]_vars

\* ------------------------------------------------- inside image_beam
\* The command of the call that exited non-zero.
FailedCommand == Commands(ib.pols)[ib.i]

\* C13: a call whose wsclean exited non-zero has logged the command, its
\* stdout and its stderr, has raised the CalledProcessError again, has
\* scanned nothing and returns no ImageSet.
C13_FailureReportedAndRaised ==
    ib.exc = "CalledProcessError"
        => /\ ib.pc = "raised"
           /\ ib.exits[ib.i] # 0
           /\ \A what \in {"command", "stdout", "stderr"} :
                  <<what, FailedCommand>> \in Range(ib.log)
           /\ ib.image_lists = <<>>
           /\ ib.aux_lists = <<>>
           /\ ib.image_set = NoSet

\* The second command failed after the first had written its files.
C13_Witness ==
    /\ ib.exc = "CalledProcessError"
    /\ ib.i = 2
    /\ WscleanFiles(1, <<"I">>) \subseteq ib.dir

\* The ImageSet has a list for pol and its four auxiliary lists, and every
\* channel image the command wrote for pol is listed.
Populated(image_set, pol) ==
    /\ image_set # NoSet
    /\ pol \in Keys(image_set.image_lists)
    /\ {File(1, FALSE, c, IF pol = "I" THEN "" ELSE pol, "image") :
            c \in 0..(NChan - 1)} \subseteq Range(Lookup(image_set.image_lists, pol))
    /\ \A aux \in Range(AuxKinds) :
          /\ <<pol, aux>> \in Keys(image_set.aux_lists)
          /\ Lookup(image_set.aux_lists, <<pol, aux>>) # <<>>

\* C14: a noise above the ceiling in a polarization's MFS image is logged
\* and nothing more: the call does not raise, and the ImageSet it returns
\* is populated for every polarization, that one included.
C14_HighNoiseOnlyReported ==
    /\ \A pol \in Range(ib.pols) :
          <<"rms", pol>> \in Range(ib.log)
              => /\ ib.pc # "raised"
                 /\ ib.exc = ""
    /\ ib.pc = "returned"
          => \A pol \in Range(ib.pols) :
                /\ pol \in ib.high => <<"rms", pol>> \in Range(ib.log)
                /\ Populated(ib.image_set, pol)

\* The call has returned though the noise of Q was too high.
C14_Witness ==
    /\ ib.pc = "returned"
    /\ "Q" \in ib.high
    /\ <<"rms", "Q">> \in Range(ib.log)
    /\ Populated(ib.image_set, "Q")

\* C18: the ImageSet image_beam returns has one list per polarization, each
\* of length nchan, whatever the directory held before the call.
C18_ListsHaveNchanEntries ==
    ib.pc = "returned"
        => \A i \in 1..Len(ib.image_set.image_lists) :
               Len(ib.image_set.image_lists[i][2]) = NChan

\* ------------------------------------------- from the scan to the cube
\* The list make_cube reads, and the spacings of the frequencies in the
\* headers of its images, taken in the order of the list.
CubeList == Lookup(mc.sm_image_set.image_lists, mc.pol)

Spacings ==
    [k \in 1..(Len(CubeList) - 1) |->
        mc.freq[ChanOf(CubeList[k + 1])] - mc.freq[ChanOf(CubeList[k])]]

\* The spacing assertion has been passed or has failed.
Asserted == mc.pc \in {"write", "returned", "raised"}

\* C15 as stated: make_cube fails whenever two spacings differ by more than
\* the tolerance.
C15_FailsOnAnyDeviation ==
    (Asserted /\ \E i, j \in 1..Len(Spacings) : Spacings[i] - Spacings[j] > Tol)
        => mc.exc = "AssertionError"

\* C15, amended: make_cube fails on the spacing assertion exactly when the
\* standard deviation of the spacings is not below the tolerance, that is
\* when there is no spacing or the squared differences of all pairs of
\* spacings sum to (n * tol)^2 or more.
C15_FailsOnDeviationOfStd ==
    Asserted
        => (mc.exc = "AssertionError"
              <=> \/ Len(Spacings) = 0
                  \/ Sum([n \in 1..(Len(Spacings) * Len(Spacings)) |->
                          LET i == ((n - 1) \div Len(Spacings)) + 1
                              j == ((n - 1) % Len(Spacings)) + 1
                          IN  IF i < j
                              THEN (Spacings[i] - Spacings[j]) * (Spacings[i] - Spacings[j])
                              ELSE 0])
                       >= Len(Spacings) * Len(Spacings) * Tol * Tol)

\* Three channels whose spacings differ by more than the tolerance, and the
\* cube is written.
C15_Witness ==
    /\ mc.pc = "returned"
    /\ Len(Spacings) = 2
    /\ Spacings[2] - Spacings[1] > Tol

\* C16: make_cube passes the spacing assertion for every evenly spaced
\* sequence, one channel alone included, and with a loadable beam writes the
\* cube and the noise vector.
C16_AcceptsEvenSpacing ==
    (Asserted /\ \A i, j \in 1..Len(Spacings) : Spacings[i] = Spacings[j])
        => /\ mc.exc # "AssertionError"
           /\ (mc.pc = "returned"
                  => mc.written = {CubeName(1, mc.pol), WeightsName(1, mc.pol)})

\* The channels the directory holds images of.
Channels == DOMAIN mc.freq

\* f is the image of polarization mc.pol for the k-th smallest channel.
KthChannel(f, k) ==
    /\ ChanOf(f) \in Channels
    /\ Cardinality({c \in Channels : c < ChanOf(f)}) = k - 1
    /\ PolOf(f) = (IF mc.pol = "I" THEN "" ELSE mc.pol)
    /\ BeamOf(f) = 1 /\ ~IsMfs(f)

\* C17: the scan lists the channel images by increasing channel, smoothing
\* keeps that order, and make_cube's k-th pass reads the k-th smallest
\* channel and stores it in slot k.
C17_SlotsInChannelOrder ==
    /\ mc.image_set # NoSet
          => \A i \in 1..Len(mc.image_set.image_lists) :
                \A k \in 1..Len(mc.image_set.image_lists[i][2]) :
                    /\ Len(mc.image_set.image_lists[i][2]) = Cardinality(Channels)
                    /\ Cardinality({c \in Channels :
                           c < ChanOf(mc.image_set.image_lists[i][2][k])}) = k - 1
    /\ mc.sm_image_set # NoSet
          => /\ Len(CubeList) = Cardinality(Channels)
             /\ \A k \in 1..Len(CubeList) : KthChannel(CubeList[k], k)
    /\ \A k \in 1..mc.chan :
          /\ KthChannel(mc.rmss[k], k)
          /\ mc.data_cube[k] = mc.rmss[k]
          /\ mc.freqs[k] = mc.freq[ChanOf(mc.rmss[k])]
    /\ mc.pc = "returned" => mc.cube = mc.data_cube

\* A cube is written from a directory with a gap in its channels.
C17_Witness ==
    /\ mc.pc = "returned"
    /\ Channels = {0, NChan}
    /\ ChanOf(mc.cube[2]) = NChan

\* C19: the cube has as many slots along the frequency axis as the image
\* list has entries, NAXIS3 says so, and the noise vector has one value per
\* channel.
C19_CubeLengthIsListLength ==
    /\ mc.chan > 0 => Len(mc.data_cube) = Len(CubeList)
    /\ mc.pc \in {"write", "returned"} => mc.naxis3 = Len(CubeList)
    /\ mc.pc = "returned"
          => /\ Len(mc.cube) = Len(CubeList)
             /\ \A k \in 1..Len(mc.cube) : mc.cube[k] = CubeList[k]
             /\ Len(mc.weights) = Len(CubeList)

\* A cube of more channels than channels_out is written.
C19_Witness ==
    /\ mc.pc = "returned"
    /\ Len(CubeList) = NChan + 1
    /\ Len(mc.cube) = NChan + 1

\* C20: the ImageSet smoothing returns has the ms, the prefix and the keys
\* of its input, in the same order; each list is as long as the input's and
\* its k-th entry is the .conv.fits beside the input's k-th entry; the input
\* still lists what the scan listed.
C20_SmoothedSetMirrorsInput ==
    mc.sm_image_set # NoSet
        => /\ mc.sm_image_set.ms = mc.image_set.ms
           /\ mc.sm_image_set.prefix = mc.image_set.prefix
           /\ Len(mc.sm_image_set.image_lists) = Len(mc.image_set.image_lists)
           /\ \A i \in 1..Len(mc.image_set.image_lists) :
                 LET in == mc.image_set.image_lists[i]
                     out == mc.sm_image_set.image_lists[i]
                 IN  /\ out[1] = in[1]
                     /\ Len(out[2]) = Len(in[2])
                     /\ \A k \in 1..Len(in[2]) :
                           /\ KindOf(in[2][k]) = "image"
                           /\ KindOf(out[2][k]) = "image.conv"
                           /\ BeamOf(out[2][k]) = BeamOf(in[2][k])
                           /\ ChanOf(out[2][k]) = ChanOf(in[2][k])
                           /\ PolOf(out[2][k]) = PolOf(in[2][k])
                           /\ IsMfs(out[2][k]) = IsMfs(in[2][k])
                           /\ in[2][k] \in ChannelImages(Channels)
           /\ mc.image_set.aux_lists # <<>>

\* Lists of three channels have been smoothed.
C20_Witness ==
    /\ mc.sm_image_set # NoSet
    /\ \A i \in 1..Len(mc.sm_image_set.image_lists) :
          Len(mc.sm_image_set.image_lists[i][2]) = NChan + 1
    /\ Len(mc.sm_image_set.image_lists) = 3

\* C21: the ImageSet smoothing returns has, for every polarization, the
\* model, residual and dirty lists of its input.
C21_AuxListsCarriedThrough ==
    mc.sm_image_set # NoSet
        => \A i \in 1..Len(mc.image_set.aux_lists) :
               LET key == mc.image_set.aux_lists[i][1]
               IN  key[2] \in {"model", "residual", "dirty"}
                     => /\ key \in Keys(mc.sm_image_set.aux_lists)
                        /\ Lookup(mc.sm_image_set.aux_lists, key)
                              = mc.image_set.aux_lists[i][2]

\* ------------------------------------------------------- the common beam
\* C23: the list get_beam fingerprints and hands to getmaxbeam holds every
\* channel image of every polarization of every ImageSet, and the beam it
\* computes is no smaller than the beam of any imaged measurement set; for
\* the beams (1, 1, 0) and (2, 1, 0) it is (2, 1, 0).
C23_CommonBeamCoversAll ==
    \A r \in runs :
        common_beam_pkl[r].step # "none"
            => /\ \A b \in mslist :
                     \A i \in 1..Len(image_sets[r][b].image_lists) :
                         /\ image_sets[r][b].image_lists[i][2] # <<>>
                         /\ Range(image_sets[r][b].image_lists[i][2])
                               \subseteq Range(common_beam_pkl[r].path)
               /\ \A b \in mslist :
                     /\ common_beam_pkl[r].beam.major >= native[b]
                     /\ common_beam_pkl[r].beam.minor >= 1
               /\ {native[b] : b \in mslist} = {1, 2}
                     => common_beam_pkl[r].beam = Beam(2, 1, 0)

\* get_beam has computed the beam of a run over beams (1, 1, 0) and (2, 1, 0).
C23_Witness ==
    \E r \in runs :
        /\ common_beam_pkl[r].step # "none"
        /\ native[1] = 1 /\ native[2] = 2
        /\ common_beam_pkl[r].beam = Beam(2, 1, 0)

\* ------------------------------------------- the commands of image_beam
\* The command loop of the call has been left without an exception.
Imaged == ib.pc \in {"rms", "construct", "returned"}

\* The polarization groups of pols that are not empty: I, and the rest.
Groups(ps) ==
    {g \in {<<"I">>, ReplaceI(ps)} : g # <<>> /\ Range(g) \subseteq Range(ps)}

\* C24: a call whose commands all succeeded has invoked wsclean once for
\* each non-empty polarization group and not once more.
C24_OneInvocationPerGroup ==
    Imaged
        => /\ Len(ib.ran) = Cardinality(Groups(ib.pols))
           /\ Range(ib.ran) = Groups(ib.pols)

\* The channel images of the requested polarizations are in the directory.
ExpectedImagesExist ==
    \A c \in 0..(NChan - 1) : \A p \in Range(ib.pols) :
        File(1, FALSE, c, IF p = "I" THEN "" ELSE p, "image") \in ib.dir

\* C25: a call without reimage that finds the expected channel images does
\* not invoke wsclean and does not fail; wsclean is invoked only with
\* reimage.
C25_ReimageOffSkipsImaging ==
    /\ (~ib.reimage /\ ib.pc \notin {"none", "reimage"} /\ ExpectedImagesExist)
          => (ib.pc # "raised" /\ ib.ran = <<>>)
    /\ (ib.pc # "none" /\ ib.ran # <<>>) => ib.reimage

\* ------------------------------------------------ cubes per polarization
\* The polarization a channel image is of.
StokesOf(f) == IF PolOf(f) = "" THEN "I" ELSE PolOf(f)

\* C26: main makes one cube per imaged polarization of a beam and none for
\* another: a make_cube task is run only for a polarization that was
\* requested and imaged, and every polarization whose channel images
\* cleanup has deleted has its cube.
C26_OneCubePerImagedPol ==
    /\ \A r \in runs : \A b \in mslist : \A p \in Range(CubePols) :
          ~Waiting(r, MakeCubeT(b, p)) => p \in Range(pols)
    /\ \A f \in deleted :
          (KindOf(f) = "image" /\ ~IsMfs(f))
              => CubeName(BeamOf(f), StokesOf(f)) \in files

\* ------------------------------------------- the number of measurement sets
\* C27: main goes on to build and run the graph whenever the glob has found
\* one measurement set or more.
C27_AnyPositiveCountRuns ==
    (mn.pc \notin {"none", "glob", "assert"} /\ mn.found > 0)
        => /\ mn.pc # "raised"
           /\ mn.exc = ""

C29_FingerprintIgnoresOrder ==
    gb.pc = "returned"
        => /\ Range(gb.image_list) = Range(ImageList(SetsInOrder, 1))
           /\ gb.common_beam_pkl = ImageHash(ImageList(SetsInOrder, 1))

\* ------------------------------------------------- the skip-imaging flag
\* C30: with skip_imaging set the imager flow is never submitted; with it
\* unset main does not fail on reading the flag, and when the RM-extraction
\* flow is started the imager flow was submitted before it.
C30_ImagerRunsUnlessSkipped ==
    /\ pspice.pc # "none" => pspice.exc # "AttributeError"
    /\ (pspice.pc # "none" /\ pspice.skip_imaging)
          => "process_imager" \notin Range(pspice.submitted)
    /\ (pspice.pc = "returned" /\ ~pspice.skip_imaging)
          => pspice.submitted = <<"process_imager", "process_spice">>

\* ------------------------------------------------ a failed spacing check
\* C32: a make_cube call whose spacing assertion failed has raised and has
\* written neither the cube nor the noise vector: it returns no pair.
C32_NoOutputOnFailedCheck ==
    mc.exc = "AssertionError"
        => /\ mc.pc = "raised"
           /\ mc.written = {}
           /\ mc.cube = <<>>
           /\ mc.weights = <<>>

\* Three channels have been read and their spacing is rejected.
C32_Witness ==
    /\ mc.exc = "AssertionError"
    /\ Len(mc.freqs) = 3
    /\ mc.pklok

\* ------------------------------------------- make_cube, axis by axis
\* wcs.axis_type_names of a channel image, in FITS order: the sky axes and
\* the polarization axis, and the frequency axis at any place among them.
SkyAxes == <<"RA", "DEC", "STOKES">>

AxisTypeNames ==
    {SubSeq(SkyAxes, 1, k) \o <<"FREQ">> \o SubSeq(SkyAxes, k + 1, Len(SkyAxes)) :
        k \in 0..Len(SkyAxes)}

\* s[::-1]
Reversed(s) == [i \in 1..Len(s) |-> s[Len(s) + 1 - i]]

\* idx = 0; for j, t in enumerate(names[::-1]): if t == "FREQ": idx = j; break
FreqIdx(names) ==
    LET r == Reversed(names)
        hits == {j \in 1..Len(r) : r[j] = "FREQ"}
    IN  IF hits = {} THEN 0
        ELSE (CHOOSE j \in hits : \A h \in hits : j <= h) - 1

\* fits.getdata(...).shape of a channel image: numpy order (the FITS axes
\* reversed), one pixel along STOKES and FREQ, nx by ny on the sky.
PlaneShape(names, nx, ny) ==
    LET r == Reversed(names)
    IN  [i \in 1..Len(r) |->
            IF r[i] = "RA" THEN nx ELSE IF r[i] = "DEC" THEN ny ELSE 1]

\* The index tuples of an array of the given shape (numpy axis a is entry
\* a + 1 of a tuple).
Cells(shape) ==
    {c \in [1..Len(shape) -> 0..(Max(Range(shape)) - 1)] :
        \A i \in 1..Len(shape) : c[i] < shape[i]}

\* Whether numpy can assign a value of shape v to a target of shape t: the
\* shapes are aligned at their last axes, each value axis has the target's
\* size or size 1, and the value's extra leading axes have size 1.
Broadcasts(v, t) ==
    \A i \in 1..Len(v) :
        LET j == i - (Len(v) - Len(t))
        IN  IF j < 1 THEN v[i] = 1 ELSE v[i] = 1 \/ v[i] = t[j]

\* data_cube[:, chan] = plane: the slice takes index chan of numpy axis 1.
\* The planes are told apart by their channel: a cell holds the channel of
\* the plane written to it.
AssignPlane(data_cube, chan) ==
    [c \in DOMAIN data_cube |-> IF c[2] = chan THEN chan ELSE data_cube[c]]

\* The cell value np.zeros leaves.
Zero == 0 - 1

InitCubeAxes ==
    /\ NoRun
    /\ ib = NoCall /\ mc = NoCall /\ gb = NoCall /\ mn = NoCall /\ pspice = NoCall
    /\ pf = NoCall /\ ci = NoCall /\ flow = NoCall /\ fr = NoCall /\ lm = NoCall
    /\ \E names \in AxisTypeNames, n \in 1..MaxChan, nx \in 1..2, ny \in 1..2 :
          ax = [pc |-> "init", names |-> names, n |-> n,
                plane_shape |-> PlaneShape(names, nx, ny), idx |-> 0,
                cube_shape |-> <<>>, data_cube |-> <<>>, chan |-> 0,
                exc |-> "none"]

\* if chan == 0: the frequency axis, cube_shape and the zeroed cube.
AxInit ==
    /\ ax.pc = "init"
    /\ LET idx == FreqIdx(ax.names)
           cube_shape == [ax.plane_shape EXCEPT ![idx + 1] = ax.n]
       IN  ax' = [ax EXCEPT !.pc = "assign", !.idx = idx,
                            !.cube_shape = cube_shape,
                            !.data_cube = [c \in Cells(cube_shape) |-> Zero]]
    /\ UNCHANGED <<pipeline, ib, mc, gb, mn, pspice, pf, ci, flow, fr, lm>>

\* data_cube[:, chan] = plane, for the next image of the list.
AxAssign ==
    /\ ax.pc = "assign"
    /\ ax.chan < ax.n
    /\ LET s == ax.cube_shape
       IN  ax' = IF ax.chan >= s[2]
                 THEN [ax EXCEPT !.pc = "raised", !.exc = "IndexError"]
                 ELSE IF ~Broadcasts(ax.plane_shape, <<s[1]>> \o SubSeq(s, 3, Len(s)))
                 THEN [ax EXCEPT !.pc = "raised", !.exc = "ValueError"]
                 ELSE [ax EXCEPT !.chan = @ + 1,
                                 !.data_cube = AssignPlane(@, ax.chan)]
    /\ UNCHANGED <<pipeline, ib, mc, gb, mn, pspice, pf, ci, flow, fr, lm>>

\* The loop has run through the list.
AxDone ==
    /\ ax.pc = "assign"
    /\ ax.chan = ax.n
    /\ ax' = [ax EXCEPT !.pc = "loaded"]
    /\ UNCHANGED <<pipeline, ib, mc, gb, mn, pspice, pf, ci, flow, fr, lm>>

NextCubeAxes == AxInit \/ AxAssign \/ AxDone

SpecCubeAxes == InitCubeAxes /\ [][NextCubeAxes]_vars

\* C33: whatever place the frequency axis has in the header, every channel
\* read so far sits at its own index along that axis, and no assignment fails.
C33_ChannelsAlongFrequencyAxis ==
    ax.pc \in {"assign", "loaded", "raised"}
        => /\ ax.exc = "none"
           /\ \A c \in DOMAIN ax.data_cube :
                 ax.data_cube[c] = (IF c[ax.idx + 1] < ax.chan
                                    THEN c[ax.idx + 1] ELSE Zero)

\* C34: the invocations of one call are the commands in their order, one at
\* a time, the I command first when I is requested; an invocation that
\* exited non-zero is the last one started, and the call has raised without
\* reaching the noise check or the scan.
C34_InvocationsInOrderStopAtFailure ==
    /\ ib.pc # "none" => ib.ran = SubSeq(Commands(ib.pols), 1, Len(ib.ran))
    /\ (ib.pc # "none" /\ ib.ran # <<>> /\ "I" \in Range(ib.pols))
          => ib.ran[1] = <<"I">>
    /\ ib.pc # "none"
          => \A k \in 1..Len(ib.ran) :
                ib.exits[k] # 0
                    => /\ k = Len(ib.ran)
                       /\ ib.pc = "raised"
                       /\ ib.i = k
                       /\ \A pol \in Range(ib.pols) : <<"rms", pol>> \notin Range(ib.log)
                       /\ ib.image_lists = <<>>
                       /\ ib.aux_lists = <<>>

\* The I invocation failed and the invocation for the rest was never started.
C34_Witness ==
    /\ ib.pc = "raised"
    /\ ib.ran = <<(<<"I">>)>>
    /\ Len(Commands(ib.pols)) = 2
    /\ ib.exits[2] = 0
    /\ ib.high # {}

\* ------------------------------------------------- file names as text
\* A name is the sequence of its pieces: each digit, "-" and "." is a piece
\* of its own, and so is each word that no pattern or replacement of the
\* code cuts through.
Digits == <<"0", "1", "2", "3", "4", "5", "6", "7", "8", "9">>

RECURSIVE Decimal(_)
Decimal(n) ==
    IF n < 10 THEN <<Digits[n + 1]>>
    ELSE Decimal(n \div 10) \o <<Digits[(n % 10) + 1]>>

\* f"{n:0w}": the decimal digits, filled with zeros on the left up to width w.
Pad(n, w) ==
    LET d == Decimal(n)
    IN  [i \in 1..(IF Len(d) < w THEN w - Len(d) ELSE 0) |-> "0"] \o d

\* A prefix whose beam number is written as it is, without the zero.
get_prefixUnpadded(field, beam) ==
    <<"image", ".">> \o field \o <<".", "contcube", ".", "beam">> \o Decimal(beam)

\* prefix = f"image.{field}.contcube.beam{beam:02}" (the same out_dir for
\* every beam is left out of the names).
get_prefix(field, beam) ==
    <<"image", ".">> \o field \o <<".", "contcube", ".", "beam">> \o Pad(beam, 2)

\* The name wsclean gives an output: {prefix}-{chan:04d}[-{pol}]-{kind}.fits,
\* with MFS for the channel part of the full-band image.
WscleanName(prefix, mfs, c, p, k) ==
    prefix \o <<"-">> \o (IF mfs THEN <<"MFS">> ELSE Pad(c, 4))
        \o (IF p = "" THEN <<>> ELSE <<"-", p>>) \o <<"-", k, ".", "fits">>

\* glob(f"{prefix}*[0-9]{post}"): the name starts with the prefix and ends
\* with post, a digit comes right before post, and "*" takes what is between.
Match(name, prefix, post) ==
    /\ Len(name) >= Len(prefix) + 1 + Len(post)
    /\ SubSeq(name, 1, Len(prefix)) = prefix
    /\ SubSeq(name, Len(name) - Len(post) + 1, Len(name)) = post
    /\ name[Len(name) - Len(post)] \in Range(Digits)

\* "-image.fits" for I (and for every psf), "-{pol}-{kind}.fits" otherwise.
Post(pol, kind) ==
    (IF pol = "I" \/ kind = "psf" THEN <<>> ELSE <<"-", pol>>)
        \o <<"-", kind, ".", "fits">>

GlobText(dir, prefix, pol, kind) == {n \in dir : Match(n, prefix, Post(pol, kind))}

\* str.replace(old, new): every occurrence, left to right.
RECURSIVE ReplaceAll(_, _, _)
ReplaceAll(s, old, new) ==
    IF old = <<>> \/ Len(s) < Len(old) THEN s
    ELSE IF SubSeq(s, 1, Len(old)) = old
         THEN new \o ReplaceAll(SubSeq(s, Len(old) + 1, Len(s)), old, new)
         ELSE <<Head(s)>> \o ReplaceAll(Tail(s), old, new)

\* The pieces in the order of their first characters.
Alphabet ==
    <<"-", ".">> \o Digits \o
    <<"A", "F", "I", "MFS", "Q", "U", "V", "beam", "contcube", "conv", "dirty",
      "fits", "i", "image", "model", "psf", "q", "residual", "restored", "txt",
      "u", "weights">>

\* a < b for two names, piece by piece.
RECURSIVE Before(_, _)
Before(a, b) ==
    IF a = <<>> THEN b # <<>>
    ELSE IF b = <<>> THEN FALSE
    ELSE IF Head(a) = Head(b) THEN Before(Tail(a), Tail(b))
    ELSE Index(Alphabet, Head(a)) < Index(Alphabet, Head(b))

\* sorted(...) of a set of names.
RECURSIVE SortedText(_)
SortedText(S) ==
    IF S = {} THEN <<>>
    ELSE LET m == CHOOSE n \in S : \A o \in S \ {n} : Before(n, o)
         IN  <<m>> \o SortedText(S \ {m})

\* s.find(piece): the place of the first occurrence.
Find(s, piece) == CHOOSE i \in 1..Len(s) : s[i] = piece /\ \A j \in 1..(i - 1) : s[j] # piece

\* pol.lower()
Lower(pol) == IF pol = "I" THEN "i" ELSE IF pol = "Q" THEN "q" ELSE "u"

\* A cube name without the polarization.
RestoredNameAnyPol(old_base, pol) ==
    LET sub == SubSeq(old_base, Find(old_base, "beam") + 3, Len(old_base))
    IN  ReplaceAll(ReplaceAll(old_base, sub, <<".", "fits">>),
                   <<"image">>, <<"image", ".", "restored">>)

\* b_idx = new_base.find("beam") + len("beam") + 2; sub = new_base[b_idx:]
\* new_base.replace(sub, ".fits").replace("image", f"image.restored.{pol.lower()}")
RestoredName(old_base, pol) ==
    LET sub == SubSeq(old_base, Find(old_base, "beam") + 3, Len(old_base))
    IN  ReplaceAll(ReplaceAll(old_base, sub, <<".", "fits">>),
                   <<"image">>, <<"image", ".", "restored", ".", Lower(pol)>>)

\* new_name.replace("image.restored", "weights").replace(".fits", ".txt")
WeightsText(new_name) ==
    ReplaceAll(ReplaceAll(new_name, <<"image", ".", "restored">>, <<"weights">>),
               <<".", "fits">>, <<".", "txt">>)

\* ------------------------------------------- two beams in one directory
\* The field names followed: a plain one and one with digits and a dash.
Fields == {<<"F">>, <<"1", "-", "2", "A">>}

\* beam_from_ms of the measurement sets main asserts to be there.
BeamNumbers == 0..(RequiredMs - 1)

\* Two measurement sets of one field, with distinct beam numbers, imaged in
\* IQU into the same out_dir.
InitNames ==
    /\ NoRun
    /\ ib = NoCall /\ mc = NoCall /\ gb = NoCall /\ mn = NoCall /\ pspice = NoCall
    /\ ax = NoCall /\ ci = NoCall /\ flow = NoCall /\ fr = NoCall /\ lm = NoCall
    /\ \E field \in Fields, b1 \in BeamNumbers, b2 \in BeamNumbers :
          /\ b1 < b2
          /\ pf = [pc |-> "prefix", field |-> field, beams |-> {b1, b2},
                   prefixs |-> <<>>, dir |-> {}, image_lists |-> <<>>,
                   aux_lists |-> <<>>, sm_image_lists |-> <<>>,
                   cubes |-> <<>>, weights |-> <<>>]

\* for ms in mslist: prefixs[ms] = get_prefix(ms, out_dir)
PfPrefix ==
    /\ pf.pc = "prefix"
    /\ pf' = [pf EXCEPT !.pc = "image",
                        !.prefixs = [b \in pf.beams |-> get_prefix(pf.field, b)]]
    /\ UNCHANGED <<pipeline, ib, mc, gb, mn, pspice, ax, ci, flow, fr, lm>>

\* The wsclean commands of both beams have written their files under the
\* prefixes handed to them.
PfImage ==
    /\ pf.pc = "image"
    /\ pf' = [pf EXCEPT
                !.pc = "scan",
                !.dir = {WscleanName(pf.prefixs[BeamOf(f)], IsMfs(f), ChanOf(f),
                                     PolOf(f), KindOf(f)) :
                            f \in UNION {WscleanFiles(b, <<"I">>)
                                            \cup WscleanFiles(b, <<"Q", "U">>) :
                                         b \in pf.beams}}]
    /\ UNCHANGED <<pipeline, ib, mc, gb, mn, pspice, ax, ci, flow, fr, lm>>

\* The globs at the end of each image_beam call.
PfScan ==
    /\ pf.pc = "scan"
    /\ pf' = [pf EXCEPT
                !.pc = "smooth",
                !.image_lists =
                    [b \in pf.beams |->
                        [pol \in Range(CubePols) |->
                            SortedText(GlobText(pf.dir, pf.prefixs[b], pol, "image"))]],
                !.aux_lists =
                    [b \in pf.beams |->
                        [key \in Range(CubePols) \X Range(AuxKinds) |->
                            SortedText(GlobText(pf.dir, pf.prefixs[b], key[1], key[2]))]]]
    /\ UNCHANGED <<pipeline, ib, mc, gb, mn, pspice, ax, ci, flow, fr, lm>>

\* smooth_images_in_imageset: sm_images.append(image.replace(".fits", ".conv.fits"))
PfSmooth ==
    /\ pf.pc = "smooth"
    /\ LET sm == [b \in pf.beams |->
                    [pol \in Range(CubePols) |->
                        [i \in 1..Len(pf.image_lists[b][pol]) |->
                            ReplaceAll(pf.image_lists[b][pol][i],
                                       <<".", "fits">>, <<".", "conv", ".", "fits">>)]]]
       IN  pf' = [pf EXCEPT
                    !.pc = "cube",
                    !.sm_image_lists = sm,
                    !.dir = @ \cup UNION {Range(sm[b][pol]) :
                                            b \in pf.beams, pol \in Range(CubePols)}]
    /\ UNCHANGED <<pipeline, ib, mc, gb, mn, pspice, ax, ci, flow, fr, lm>>

\* make_cube of every beam and polarization: new_name from the first image
\* of the smoothed list, new_w_name from new_name; both files are written.
PfCube ==
    /\ pf.pc = "cube"
    /\ \A b \in pf.beams, pol \in Range(CubePols) : pf.sm_image_lists[b][pol] # <<>>
    /\ LET keys == pf.beams \X Range(CubePols)
           cubes == [key \in keys |->
                        RestoredName(pf.sm_image_lists[key[1]][key[2]][1], key[2])]
           weights == [key \in keys |-> WeightsText(cubes[key])]
       IN  pf' = [pf EXCEPT
                    !.pc = "done", !.cubes = cubes, !.weights = weights,
                    !.dir = @ \cup {cubes[key] : key \in keys}
                              \cup {weights[key] : key \in keys}]
    /\ UNCHANGED <<pipeline, ib, mc, gb, mn, pspice, ax, ci, flow, fr, lm>>

NextNames == PfPrefix \/ PfImage \/ PfScan \/ PfSmooth \/ PfCube

SpecNames == InitNames /\ [][NextNames]_vars

\* Every path in the ImageSets of beam b: the scanned one and the smoothed one.
PathsOf(b) ==
    UNION {Range(pf.image_lists[b][pol]) : pol \in Range(CubePols)}
        \cup UNION {Range(pf.aux_lists[b][key]) : key \in DOMAIN pf.aux_lists[b]}
        \cup (IF pf.sm_image_lists = <<>> THEN {}
              ELSE UNION {Range(pf.sm_image_lists[b][pol]) : pol \in Range(CubePols)})

\* C35: two beams of a field with distinct numbers in 0..35 get distinct
\* prefixes, and no file is listed in the ImageSets of both: what one beam's
\* cleanup removes is never a file a task of the other beam reads.
C35_BeamsShareNoFile ==
    /\ pf.pc \in {"image", "scan", "smooth", "cube", "done"}
          => \A b \in pf.beams, o \in pf.beams :
                b # o => pf.prefixs[b] # pf.prefixs[o]
    /\ pf.pc \in {"smooth", "cube", "done"}
          => \A b \in pf.beams, o \in pf.beams :
                b # o => PathsOf(b) \cap PathsOf(o) = {}

\* Beams 1 and 10 have been scanned and smoothed, each with its channel
\* images listed, in a directory that holds the files of both.
C35_Witness ==
    /\ pf.pc = "cube"
    /\ pf.beams = {1, 10}
    /\ \A b \in pf.beams :
          /\ Len(pf.image_lists[b]["Q"]) = NChan
          /\ Range(pf.sm_image_lists[b]["Q"]) \subseteq pf.dir

\* C36: the cube and noise-vector paths of distinct (beam, polarization)
\* pairs are distinct, a cube path is no noise-vector path, and none of them
\* is listed in an ImageSet: no two make_cube tasks write the same file and
\* no cleanup removes a cube.
C36_CubePathsApart ==
    pf.pc = "done"
        => LET keys == DOMAIN pf.cubes
               listed == UNION {PathsOf(b) : b \in pf.beams}
           IN  /\ \A k \in keys, o \in keys :
                     /\ k # o => /\ pf.cubes[k] # pf.cubes[o]
                                 /\ pf.weights[k] # pf.weights[o]
                     /\ pf.cubes[k] # pf.weights[o]
               /\ \A k \in keys :
                     /\ pf.cubes[k] \notin listed
                     /\ pf.weights[k] \notin listed

\* The cubes of beams 0 and 35 of the field with digits in its name are
\* written, next to the images they were made from.
C36_Witness ==
    /\ pf.pc = "done"
    /\ pf.beams = {0, 35}
    /\ pf.field = <<"1", "-", "2", "A">>
    /\ pf.cubes[<<35, "Q">>] \in pf.dir
    /\ pf.weights[<<0, "I">>] \in pf.dir
    /\ pf.sm_image_lists[0]["I"][1] \in pf.dir

\* ------------------------------------------------ inside cleanup_imageset
\* One call on the ImageSet a successful image_beam call built for beam 1:
\* the directory holds what the commands wrote, with or without the files
\* of an earlier run.
InitCleanupImageset ==
    /\ NoRun
    /\ ib = NoCall /\ mc = NoCall /\ gb = NoCall /\ mn = NoCall /\ pspice = NoCall
    /\ ax = NoCall /\ pf = NoCall /\ flow = NoCall /\ fr = NoCall /\ lm = NoCall
    /\ \E ps \in PolsChoices, p \in BOOLEAN, old \in {{}, EarlierRun(1)} :
          LET cmds == Commands(ps)
              dir == old \cup UNION {WscleanFiles(1, cmds[i]) : i \in 1..Len(cmds)}
              image_set == ScanImageSet(dir, 1, ps)
          IN  ci = [pc |-> "purge", purge |-> p, pols |-> ps,
                    image_set |-> image_set, files |-> dir,
                    images |-> Flatten(image_set.image_lists),
                    aux |-> Flatten(image_set.aux_lists),
                    removed |-> <<>>, not_found |-> <<>>, exc |-> "none"]

\* if not purge: return
CiPurge ==
    /\ ci.pc = "purge"
    /\ ci' = [ci EXCEPT !.pc = IF ci.purge THEN "images" ELSE "returned"]
    /\ UNCHANGED <<pipeline, ib, mc, gb, mn, pspice, ax, pf, flow, fr, lm>>

\* for image in image_list: os.remove(image), nothing caught.
CiRemoveImage ==
    /\ ci.pc = "images"
    /\ ci.images # <<>>
    /\ LET image == Head(ci.images)
       IN  ci' = IF image \in ci.files
                 THEN [ci EXCEPT !.files = @ \ {image},
                                 !.removed = Append(@, image),
                                 !.images = Tail(@)]
                 ELSE [ci EXCEPT !.pc = "raised", !.exc = "FileNotFoundError"]
    /\ UNCHANGED <<pipeline, ib, mc, gb, mn, pspice, ax, pf, flow, fr, lm>>

\* if image_set.aux_lists: on to the auxiliary loop, else return.
CiImagesDone ==
    /\ ci.pc = "images"
    /\ ci.images = <<>>
    /\ ci' = [ci EXCEPT !.pc = IF ci.image_set.aux_lists # <<>> THEN "aux"
                               ELSE "returned"]
    /\ UNCHANGED <<pipeline, ib, mc, gb, mn, pspice, ax, pf, flow, fr, lm>>

\* An auxiliary loop without the try.
CiRemoveAuxUncaught ==
    /\ ci.pc = "aux"
    /\ ci.aux # <<>>
    /\ LET aux_image == Head(ci.aux)
       IN  ci' = IF aux_image \in ci.files
                 THEN [ci EXCEPT !.files = @ \ {aux_image},
                                 !.removed = Append(@, aux_image),
                                 !.aux = Tail(@)]
                 ELSE [ci EXCEPT !.pc = "raised", !.exc = "FileNotFoundError"]
    /\ UNCHANGED <<pipeline, ib, mc, gb, mn, pspice, ax, pf, flow, fr, lm>>

\* try: os.remove(aux_image) except FileNotFoundError: logger.error(...)
CiRemoveAux ==
    /\ ci.pc = "aux"
    /\ ci.aux # <<>>
    /\ LET aux_image == Head(ci.aux)
       IN  ci' = IF aux_image \in ci.files
                 THEN [ci EXCEPT !.files = @ \ {aux_image},
                                 !.removed = Append(@, aux_image),
                                 !.aux = Tail(@)]
                 ELSE [ci EXCEPT !.not_found = Append(@, aux_image),
                                 !.aux = Tail(@)]
    /\ UNCHANGED <<pipeline, ib, mc, gb, mn, pspice, ax, pf, flow, fr, lm>>

\* return
CiReturn ==
    /\ ci.pc = "aux"
    /\ ci.aux = <<>>
    /\ ci' = [ci EXCEPT !.pc = "returned"]
    /\ UNCHANGED <<pipeline, ib, mc, gb, mn, pspice, ax, pf, flow, fr, lm>>

NextCleanupImageset ==
    CiPurge \/ CiRemoveImage \/ CiImagesDone \/ CiRemoveAux \/ CiReturn

SpecCleanupImageset == InitCleanupImageset /\ [][NextCleanupImageset]_vars

\* How often x occurs in the sequence s.
Count(s, x) == Cardinality({i \in 1..Len(s) : s[i] = x})

\* C37: the psf list is the same under every polarization of the ImageSet;
\* a purging call never raises, and when it has returned every psf file was
\* removed once, each further listing of it was met as a missing file, and
\* no auxiliary file is left.
C37_SharedPsfRemovedOnce ==
    ci.pc # "none"
        => /\ \A p \in Range(ci.pols) :
                 /\ Lookup(ci.image_set.aux_lists, <<p, "psf">>) # <<>>
                 /\ \A q \in Range(ci.pols) :
                       Lookup(ci.image_set.aux_lists, <<p, "psf">>)
                           = Lookup(ci.image_set.aux_lists, <<q, "psf">>)
           /\ ci.pc # "raised"
           /\ (ci.pc = "returned" /\ ci.purge)
                 => /\ \A f \in Range(Flatten(ci.image_set.aux_lists)) :
                          /\ f \notin ci.files
                          /\ Count(ci.removed, f) = 1
                          /\ KindOf(f) = "psf"
                                => Count(ci.not_found, f) = Len(ci.pols) - 1

\* A purging call has returned after meeting psf files it had removed.
C37_Witness ==
    /\ ci.pc = "returned"
    /\ ci.purge
    /\ Len(ci.pols) = 3
    /\ \E f \in Range(ci.not_found) : KindOf(f) = "psf"

\* ------------------------------------------------- the run to its end
\* compute(cleans): the scheduler starts every task whose inputs are there,
\* so a task that stays ready is run; the steps of the graph are taken as
\* long as one is possible.
\* The runs in which every task can succeed: the images are made, and in
\* the polarizations main makes cubes of.
InitFair ==
    /\ Init
    /\ reimage
    /\ pols = <<"I", "Q", "U">>

\* The steps of the runs in which every task succeeds.
Succeeds == \A r \in runs, t \in Tasks(mslist) : st'[r][t] # "error"

NextSucceeding ==
    \/ \E r \in runs, b \in mslist : FixMs(r, b) /\ Succeeds
    \/ \E r \in runs, b \in mslist : ImageBeam(r, b) /\ Succeeds
    \/ \E r \in runs : GetBeamCompute(r) /\ Succeeds
    \/ \E r \in runs : GetBeamOpen(r)
    \/ \E r \in runs : GetBeamDump(r)
    \/ \E r \in runs, b \in mslist : Smooth(r, b) /\ Succeeds
    \/ \E r \in runs, b \in mslist, p \in Range(CubePols) :
          MakeCube(r, b, p) /\ Succeeds
    \/ \E r \in runs, b \in mslist : Cleanup(r, b) /\ Succeeds

SpecFair == InitFair /\ [][NextSucceeding]_vars /\ WF_vars(NextSucceeding)

\* Every task of run r has ended well.
AllDone(r) == \A t \in Tasks(mslist) : Done(r, t)

\* C38: a run in which no task fails comes to the state where every task,
\* the cleanup of every beam included, has been executed; and a cleanup task
\* that has been executed is never executed again.
C38_RunEndsWithEveryCleanupOnce ==
    /\ <>(\A r \in runs : AllDone(r))
    /\ [][\A r \in runs, b \in mslist :
            ~Waiting(r, CleanupT(b))
                => st'[r][CleanupT(b)] = st[r][CleanupT(b)]]_vars

\* The run has ended with every task done, the purging cleanups included.
C38_Witness ==
    /\ purge
    /\ \A r \in runs : AllDone(r)
    /\ \A b \in mslist : \E f \in deleted : BeamOf(f) = b

\* ------------------------------------------------ process_spice, the flow
\* The stages in the order process_spice submits them, by their task names.
Stages ==
    <<"Cutout", "LINMOS", "Clean up", "FRion", "RM Synthesis", "RM-CLEAN",
      "Catalogue">>

\* def main(...) of linmos.py and of frion.py: the parameters in order and
\* those without a default.
LinmosParams ==
    [params |-> <<"field", "datadir", "host", "holofile", "username", "password",
                  "yanda", "yanda_img", "stokeslist", "verbose">>,
     required |-> {"field", "datadir", "host"}]

FrionParams ==
    [params |-> <<"field", "outdir", "host", "epoch", "sbid", "username",
                  "password", "database", "ionex_server", "ionex_prefix",
                  "ionex_proxy_server", "ionex_formatter", "ionex_predownload",
                  "limit">>,
     required |-> {"field", "outdir", "host", "epoch"}]

\* The arguments of linmos_task.submit and frion_task.submit (wait_for is
\* taken by submit itself): how many positional ones, and the keywords.
LinmosCall ==
    [npos |-> 0,
     keywords |-> {"field", "datadir", "host", "holofile", "username", "password",
                   "yanda", "stokeslist", "verbose"}]

\* frion_task.submit(args.skip_frion, field=..., outdir=..., ...)
FrionCall ==
    [npos |-> 1,
     keywords |-> {"field", "outdir", "host", "username", "password", "database",
                   "verbose"}]

\* Python's binding of a call to a signature: no parameter filled twice, no
\* unknown keyword, no required parameter left out.
Binds(sig, call) ==
    LET positional == {sig.params[k] : k \in 1..call.npos}
    IN  /\ call.npos <= Len(sig.params)
        /\ positional \cap call.keywords = {}
        /\ call.keywords \subseteq Range(sig.params)
        /\ sig.required \subseteq (positional \cup call.keywords)

\* Whether the submit of stage i binds its arguments; the functions of the
\* other stages are taken to accept theirs.
SubmitBinds(i) ==
    IF Stages[i] = "LINMOS" THEN Binds(LinmosParams, LinmosCall)
    ELSE IF Stages[i] = "FRion" THEN Binds(FrionParams, FrionCall)
    ELSE TRUE

\* previous_future = None
None == 0

\* One run of the flow for each combination of the skip flags.
InitFlow ==
    /\ NoRun
    /\ ib = NoCall /\ mc = NoCall /\ gb = NoCall /\ mn = NoCall /\ pspice = NoCall
    /\ ax = NoCall /\ pf = NoCall /\ ci = NoCall /\ fr = NoCall /\ lm = NoCall
    /\ \E skip \in [1..Len(Stages) -> BOOLEAN] :
          flow = [pc |-> "submit", skip |-> skip, i |-> 1,
                  previous_future |-> None,
                  wait_for |-> [s \in 1..Len(Stages) |-> None],
                  state |-> [s \in 1..Len(Stages) |-> "none"],
                  order |-> <<>>, exc |-> "none"]

\* previous_future = X_task.submit(..., wait_for=[previous_future])
\*     if not args.skip_X else previous_future
\* submit binds the arguments to the task's function and raises when they
\* do not fit.
FlSubmit ==
    /\ flow.pc = "submit"
    /\ flow.i <= Len(Stages)
    /\ flow' = IF flow.skip[flow.i] THEN [flow EXCEPT !.i = @ + 1]
               ELSE IF ~SubmitBinds(flow.i)
               THEN [flow EXCEPT !.pc = "raised", !.exc = "ParameterBindError"]
               ELSE [flow EXCEPT !.state[flow.i] = "pending",
                                 !.wait_for[flow.i] = flow.previous_future,
                                 !.previous_future = flow.i,
                                 !.i = @ + 1]
    /\ UNCHANGED <<pipeline, ib, mc, gb, mn, pspice, ax, pf, ci, fr, lm>>

\* The flow function returns after the last submit.
FlReturn ==
    /\ flow.pc = "submit"
    /\ flow.i = Len(Stages) + 1
    /\ flow' = [flow EXCEPT !.pc = "returned"]
    /\ UNCHANGED <<pipeline, ib, mc, gb, mn, pspice, ax, pf, ci, fr, lm>>

\* The task runner starts a submitted task once the future it waits for is
\* completed (None is no future).
FlStart(s) ==
    /\ flow.state[s] = "pending"
    /\ IF flow.wait_for[s] = None THEN TRUE
       ELSE flow.state[flow.wait_for[s]] = "completed"
    /\ flow' = [flow EXCEPT !.state[s] = "running", !.order = Append(@, s)]
    /\ UNCHANGED <<pipeline, ib, mc, gb, mn, pspice, ax, pf, ci, fr, lm>>

\* The stage's function returns.
FlFinish(s) ==
    /\ flow.state[s] = "running"
    /\ flow' = [flow EXCEPT !.state[s] = "completed"]
    /\ UNCHANGED <<pipeline, ib, mc, gb, mn, pspice, ax, pf, ci, fr, lm>>

NextFlow ==
    \/ FlSubmit
    \/ FlReturn
    \/ \E s \in 1..Len(Stages) : FlStart(s)
    \/ \E s \in 1..Len(Stages) : FlFinish(s)

SpecFlow == InitFlow /\ [][NextFlow]_vars

\* The stages started so far are the first non-skipped ones, in the order
\* of Stages, and a stage has started only after the nearest non-skipped
\* stage before it has finished.
StartedInOrder ==
    /\ \A k \in 1..(Len(flow.order) - 1) : flow.order[k] < flow.order[k + 1]
    /\ \A s \in Range(flow.order), q \in 1..Len(Stages) :
          (q < s /\ ~flow.skip[q])
              => /\ q \in Range(flow.order)
                 /\ (flow.state[s] = "running" /\ \A m \in (q + 1)..(s - 1) : flow.skip[m])
                       => flow.state[q] = "completed"

\* C39: for every combination of skip flags the flow submits every stage
\* that is not skipped without an error, the stages start in the fixed
\* order, each after the one before it has finished, and once the flow has
\* returned nothing but a running or waiting stage keeps a non-skipped
\* stage from having run.
C39_NonSkippedStagesRunInOrder ==
    flow.pc # "none"
        => /\ flow.exc = "none"
           /\ StartedInOrder
           /\ flow.pc = "returned"
                 => \A s \in 1..Len(Stages) :
                       ~flow.skip[s] => flow.state[s] # "none"

\* ------------------------------------------------------- inside frion.main
MaxIslands == 2  \* islands (and their beams) found for the field

\* A record of the field collection.
FieldRecord(name, sbid, select) == [FIELD_NAME |-> name, SBID |-> sbid, SELECT |-> select]

FieldRecords == {FieldRecord(f, s, x) : f \in {"A", "B"}, s \in 1..2, x \in 0..1}

\* The field collections followed: up to two records, in their natural order.
FieldCollections ==
    {<<>>} \cup {<<a>> : a \in FieldRecords}
           \cup {<<a, b>> : a \in FieldRecords, b \in FieldRecords}

\* What find_one returns when no record matches (None).
NoRecord == FieldRecord("", None, None)

\* field_col.find_one(query): the first record the query matches, None when
\* there is none. A query is the set of records it matches.
FindOne(col, query) ==
    LET hits == {k \in 1..Len(col) : col[k] \in query}
    IN  IF hits = {} THEN NoRecord
        ELSE col[CHOOSE k \in hits : \A h \in hits : k <= h]

\* field_col.count_documents(query)
CountDocuments(col, query) == Cardinality({k \in 1..Len(col) : col[k] \in query})

\* A validation that only asks whether the SBID is in the collection.
validate_sbid_field_pairAnyField(field_name, sbid, field_col) ==
    IF FindOne(field_col, {rec \in FieldRecords : rec.SBID = sbid}) = NoRecord
    THEN "ValueError" ELSE "True"

\* validate_sbid_field_pair: ValueError when no record has the SBID, else
\* whether the record found is of the field.
validate_sbid_field_pair(field_name, sbid, field_col) ==
    LET field_data == FindOne(field_col, {rec \in FieldRecords : rec.SBID = sbid})
    IN  IF field_data = NoRecord THEN "ValueError"
        ELSE IF field_data.FIELD_NAME = field_name THEN "True" ELSE "False"

\* query_3: FIELD_NAME and SELECT = 1, and the SBID when one is given.
Query3(field, sbid) ==
    {rec \in FieldRecords :
        /\ rec.FIELD_NAME = field /\ rec.SELECT = 1
        /\ sbid # None => rec.SBID = sbid}

\* One call for field "A": the SBID argument, the database flag, the field
\* collection and the number of islands of the field.
InitFrion ==
    /\ NoRun
    /\ ib = NoCall /\ mc = NoCall /\ gb = NoCall /\ mn = NoCall /\ pspice = NoCall
    /\ ax = NoCall /\ pf = NoCall /\ ci = NoCall /\ flow = NoCall /\ lm = NoCall
    /\ \E sbid \in {None, 1}, database \in BOOLEAN, col \in FieldCollections,
          n \in 0..MaxIslands :
          fr = [pc |-> "validate", field |-> "A", sbid |-> sbid,
                database |-> database, field_col |-> col, n |-> n,
                prediction |-> [i \in 1..n |-> "pending"],
                correction |-> [i \in 1..n |-> "pending"],
                did |-> <<>>, exc |-> "none"]

\* if sbid is not None: ... if not sbid_check: raise ValueError
FrValidate ==
    /\ fr.pc = "validate"
    /\ fr' = IF fr.sbid = None THEN [fr EXCEPT !.pc = "count"]
             ELSE IF validate_sbid_field_pair(fr.field, fr.sbid, fr.field_col) = "True"
             THEN [fr EXCEPT !.pc = "count"]
             ELSE [fr EXCEPT !.pc = "raised", !.exc = "ValueError"]
    /\ UNCHANGED <<pipeline, ib, mc, gb, mn, pspice, ax, pf, ci, flow, lm>>

\* if field_col.count_documents(query_3) > 1: raise ValueError; otherwise
\* field_data = field_col.find_one(...), whose SCAN_START is read (TypeError
\* on None), and beams[0] (IndexError without beams).
FrCount ==
    /\ fr.pc = "count"
    /\ fr' = IF CountDocuments(fr.field_col, Query3(fr.field, fr.sbid)) > 1
             THEN [fr EXCEPT !.pc = "raised", !.exc = "ValueError"]
             ELSE IF FindOne(fr.field_col,
                             {rec \in FieldRecords : rec.FIELD_NAME = fr.field}) = NoRecord
             THEN [fr EXCEPT !.pc = "raised", !.exc = "TypeError"]
             ELSE IF fr.n = 0
             THEN [fr EXCEPT !.pc = "raised", !.exc = "IndexError"]
             ELSE [fr EXCEPT !.pc = "first"]
    /\ UNCHANGED <<pipeline, ib, mc, gb, mn, pspice, ax, pf, ci, flow, lm>>

\* _ = predict_worker(island=islands[0], ...): run in place, it may raise.
FrPredictFirst ==
    /\ fr.pc = "first"
    /\ \E ok \in BOOLEAN :
          fr' = IF ok THEN [fr EXCEPT !.pc = "map", !.did = Append(@, <<"predict", 1>>)]
                ELSE [fr EXCEPT !.pc = "raised", !.exc = "PredictError",
                                !.did = Append(@, <<"predict", 1>>)]
    /\ UNCHANGED <<pipeline, ib, mc, gb, mn, pspice, ax, pf, ci, flow, lm>>

\* predict_worker.map(...): the prediction of island i runs.
FrPredict(i) ==
    /\ fr.pc = "map"
    /\ fr.prediction[i] = "pending"
    /\ \E ok \in BOOLEAN :
          fr' = [fr EXCEPT !.prediction[i] = IF ok THEN "completed" ELSE "failed",
                           !.did = Append(@, <<"predict", i>>)]
    /\ UNCHANGED <<pipeline, ib, mc, gb, mn, pspice, ax, pf, ci, flow, lm>>

\* correct_worker.map(..., prediction=predictions, ...): the correction of
\* island i runs once its prediction is there.
FrCorrect(i) ==
    /\ fr.pc = "map"
    /\ fr.correction[i] = "pending"
    /\ fr.prediction[i] = "completed"
    /\ \E ok \in BOOLEAN :
          fr' = [fr EXCEPT !.correction[i] = IF ok THEN "completed" ELSE "failed",
                           !.did = Append(@, <<"correct", i>>)]
    /\ UNCHANGED <<pipeline, ib, mc, gb, mn, pspice, ax, pf, ci, flow, lm>>

\* [p.result().update for p in predictions]; [c.result() for c in
\* corrections]: result() waits for its task and raises when it failed.
FrResults ==
    /\ fr.pc = "map"
    /\ \A i \in 1..fr.n : fr.prediction[i] # "pending"
    /\ IF \E i \in 1..fr.n : fr.prediction[i] = "failed"
       THEN fr' = [fr EXCEPT !.pc = "raised", !.exc = "PredictError"]
       ELSE /\ \A i \in 1..fr.n : fr.correction[i] # "pending"
            /\ fr' = IF \E i \in 1..fr.n : fr.correction[i] = "failed"
                     THEN [fr EXCEPT !.pc = "raised", !.exc = "CorrectError"]
                     ELSE [fr EXCEPT !.pc = "write"]
    /\ UNCHANGED <<pipeline, ib, mc, gb, mn, pspice, ax, pf, ci, flow, lm>>

\* if database: beams_col.bulk_write(updates, ordered=False)
FrWriteBeams ==
    /\ fr.pc = "write"
    /\ fr' = IF fr.database
             THEN [fr EXCEPT !.pc = "write_islands",
                             !.did = Append(@, <<"bulk_write", "beams">>)]
             ELSE [fr EXCEPT !.pc = "returned"]
    /\ UNCHANGED <<pipeline, ib, mc, gb, mn, pspice, ax, pf, ci, flow, lm>>

\* island_col.bulk_write(updates_arrays, ordered=False)
FrWriteIslands ==
    /\ fr.pc = "write_islands"
    /\ fr' = [fr EXCEPT !.pc = "returned",
                        !.did = Append(@, <<"bulk_write", "islands">>)]
    /\ UNCHANGED <<pipeline, ib, mc, gb, mn, pspice, ax, pf, ci, flow, lm>>

NextFrion ==
    \/ FrValidate
    \/ FrCount
    \/ FrPredictFirst
    \/ \E i \in 1..fr.n : FrPredict(i)
    \/ \E i \in 1..fr.n : FrCorrect(i)
    \/ FrResults
    \/ FrWriteBeams
    \/ FrWriteIslands

SpecFrion == InitFrion /\ [][NextFrion]_vars

\* The SBID given is of no record of the field: it is not in the collection
\* or it is there for another field only.
SbidNotOfField ==
    /\ fr.sbid # None
    /\ ~\E k \in 1..Len(fr.field_col) :
          /\ fr.field_col[k].SBID = fr.sbid
          /\ fr.field_col[k].FIELD_NAME = fr.field

\* C40: with an SBID that is not of the field, or with more than one
\* SELECT=1 record matching, the call does nothing before it raises
\* ValueError; and a collection is written only with the database flag set
\* and only after every prediction and every correction has its result.
C40_ChecksBeforeWorkWritesLast ==
    fr.pc # "none"
        => /\ (SbidNotOfField
                  \/ CountDocuments(fr.field_col, Query3(fr.field, fr.sbid)) > 1)
                 => /\ fr.did = <<>>
                    /\ fr.pc \in {"validate", "count", "raised"}
                    /\ fr.pc = "raised" => fr.exc = "ValueError"
           /\ (\E k \in 1..Len(fr.did) : fr.did[k][1] = "bulk_write")
                 => /\ fr.database
                    /\ \A i \in 1..fr.n :
                          /\ fr.prediction[i] = "completed"
                          /\ fr.correction[i] = "completed"

\* A call given the SBID of another field's record has raised ValueError,
\* though the field has its own record with SELECT = 1.
C40_Witness ==
    /\ fr.pc = "raised"
    /\ fr.exc = "ValueError"
    /\ fr.database
    /\ fr.n = MaxIslands
    /\ fr.field_col = <<FieldRecord("B", fr.sbid, 1), FieldRecord("A", 2, 1)>>

\* ------------------------------------------------------ inside linmos.main
\* A linmos task that looks at the return code only.
linmosAnyFiles(return_code, new_files) ==
    IF return_code # 0 THEN "Exception" ELSE "UpdateOne"

\* The linmos task after the engine has run: an exception on a non-zero
\* return code, an exception unless the glob finds exactly one mosaic, and
\* else the update of the beams record.
linmos(return_code, new_files) ==
    IF return_code # 0 THEN "Exception"
    ELSE IF new_files # 1 THEN "Exception"
    ELSE "UpdateOne"

\* One call with a parset per island: what the engine returns for each, and
\* how many files the glob over its working directory then finds.
InitLinmos ==
    /\ NoRun
    /\ ib = NoCall /\ mc = NoCall /\ gb = NoCall /\ mn = NoCall /\ pspice = NoCall
    /\ ax = NoCall /\ pf = NoCall /\ ci = NoCall /\ flow = NoCall /\ fr = NoCall
    /\ \E n \in 1..MaxIslands :
          \E codes \in [1..n -> 0..1], found \in [1..n -> 0..2] :
             lm = [pc |-> "compute", n |-> n, return_code |-> codes,
                   new_files |-> found,
                   results |-> [i \in 1..n |-> "pending"],
                   updates |-> <<>>, beams_col |-> {}, exc |-> "none"]

\* A linmos task of the graph runs (the tasks are persisted by chunk_dask
\* and run in any order).
LmTask(i) ==
    /\ lm.pc = "compute"
    /\ lm.results[i] = "pending"
    /\ lm' = [lm EXCEPT !.results[i] = linmos(lm.return_code[i], lm.new_files[i])]
    /\ UNCHANGED <<pipeline, ib, mc, gb, mn, pspice, ax, pf, ci, flow, fr>>

\* updates = [f.compute() for f in futures]: the next future in order, once
\* its task has ended; compute raises the exception of a failed task.
LmCompute ==
    /\ lm.pc = "compute"
    /\ Len(lm.updates) < lm.n
    /\ LET i == Len(lm.updates) + 1
       IN  /\ lm.results[i] # "pending"
           /\ lm' = IF lm.results[i] = "Exception"
                    THEN [lm EXCEPT !.pc = "raised", !.exc = "Exception"]
                    ELSE [lm EXCEPT !.updates = Append(@, i)]
    /\ UNCHANGED <<pipeline, ib, mc, gb, mn, pspice, ax, pf, ci, flow, fr>>

\* db_res = beams_col.bulk_write(updates, ordered=False)
LmBulkWrite ==
    /\ lm.pc = "compute"
    /\ Len(lm.updates) = lm.n
    /\ lm' = [lm EXCEPT !.pc = "returned", !.beams_col = Range(lm.updates)]
    /\ UNCHANGED <<pipeline, ib, mc, gb, mn, pspice, ax, pf, ci, flow, fr>>

NextLinmos ==
    \/ \E i \in 1..lm.n : LmTask(i)
    \/ LmCompute
    \/ LmBulkWrite

SpecLinmos == InitLinmos /\ [][NextLinmos]_vars

\* C31: a linmos task whose engine returned non-zero, or whose glob found
\* another number of files than one, has ended in an exception and its
\* update is nowhere; the beams collection is written only when every task
\* of the run has returned its update.
C31_FailedTaskLeavesCollectionUnwritten ==
    lm.pc # "none"
        => /\ \A i \in 1..lm.n :
                 (lm.return_code[i] # 0 \/ lm.new_files[i] # 1)
                     => /\ lm.results[i] \in {"pending", "Exception"}
                        /\ i \notin Range(lm.updates)
                        /\ lm.beams_col = {}
                        /\ lm.pc # "returned"
           /\ lm.beams_col # {}
                 => /\ \A i \in 1..lm.n : lm.results[i] = "UpdateOne"
                    /\ lm.beams_col = 1..lm.n

\* The engine returned 0 for every parset, but for the last one the glob
\* found two files: the call has raised after the other tasks had returned
\* their updates, and nothing is written.
C31_Witness ==
    /\ lm.pc = "raised"
    /\ lm.n = MaxIslands
    /\ \A i \in 1..lm.n : lm.return_code[i] = 0
    /\ lm.new_files[lm.n] = 2
    /\ Len(lm.updates) = lm.n - 1
    /\ lm.beams_col = {}

=============================================================================
